---- MODULE Spec2Model ----
(***************************************************************************)
(* Candy Peaks: a Tri-Peaks solitaire with combo-driven powerups.          *)
(* The engine lives in game.ts (layout graph, dealer, seeded RNG, exposure *)
(* and rank adjacency) and in App.tsx (the handlers that replace the       *)
(* GameState and maintain the undo history).                               *)
(*                                                                         *)
(* JS arrays are indexed from 0; a TLA+ sequence is indexed from 1, so     *)
(* arr[i] of the source is seq[i + 1] here.  The tableau is kept as a      *)
(* function on 0..27 so that slot ids index it directly.                   *)
(***************************************************************************)
EXTENDS Integers, Sequences, FiniteSets, TLC

(***************************************************************************)
(* 32-bit words.  TLC integers are 32-bit signed, so an unsigned 32-bit    *)
(* value is kept as two 16-bit halves <<hi, lo>>; every JS bit operation   *)
(* used by the RNG (^, |, <<, >>>, Math.imul, +) is taken modulo 2^32.     *)
(* Each word operator binds its operands with a singleton set, so that an  *)
(* operand is computed once, before the operator's body.                   *)
(***************************************************************************)
Half == 65536

W(hi, lo) == <<hi, lo>>

\* 2^k for 0 <= k <= 16
Pow2(k) == <<1, 2, 4, 8, 16, 32, 64, 128, 256, 512, 1024, 2048, 4096, 8192,
             16384, 32768, 65536>>[k + 1]

\* bit k of a natural
Bit(a, k) == (a \div Pow2(k)) % 2

\* bitwise exclusive or of two 16-bit values
XorN(a, b) ==
  LET x(k) == ((Bit(a, k) + Bit(b, k)) % 2) * Pow2(k)
  IN  (((x(0) + x(1)) + (x(2) + x(3))) + ((x(4) + x(5)) + (x(6) + x(7))))
      + (((x(8) + x(9)) + (x(10) + x(11))) + ((x(12) + x(13)) + (x(14) + x(15))))

\* bitwise or of two 16-bit values
OrN(a, b) ==
  LET x(k) == (IF Bit(a, k) + Bit(b, k) > 0 THEN 1 ELSE 0) * Pow2(k)
  IN  (((x(0) + x(1)) + (x(2) + x(3))) + ((x(4) + x(5)) + (x(6) + x(7))))
      + (((x(8) + x(9)) + (x(10) + x(11))) + ((x(12) + x(13)) + (x(14) + x(15))))

WXor(a, b) ==
  CHOOSE r \in {W(XorN(p[1], q[1]), XorN(p[2], q[2])) : p \in {a}, q \in {b}} : TRUE

WOr(a, b) ==
  CHOOSE r \in {W(OrN(p[1], q[1]), OrN(p[2], q[2])) : p \in {a}, q \in {b}} : TRUE

WAdd(a, b) ==
  CHOOSE r \in {W((p[1] + q[1] + ((p[2] + q[2]) \div Half)) % Half, (p[2] + q[2]) % Half) :
                  p \in {a}, q \in {b}} : TRUE

\* a >>> k for 0 < k < 16
WShr(a, k) ==
  CHOOSE r \in {W(p[1] \div Pow2(k), (p[2] \div Pow2(k)) + (p[1] % Pow2(k)) * Pow2(16 - k)) :
                  p \in {a}} : TRUE

\* a >>> 16
WShr16(a) == CHOOSE r \in {W(0, p[1]) : p \in {a}} : TRUE

\* (a << k) | (a >>> (32 - k)) for 0 < k < 16: a rotation to the left
WRotl(a, k) ==
  CHOOSE r \in {W((p[1] % Pow2(16 - k)) * Pow2(k) + (p[2] \div Pow2(16 - k)),
                    (p[2] % Pow2(16 - k)) * Pow2(k) + (p[1] \div Pow2(16 - k))) :
                  p \in {a}} : TRUE

\* low 16 bits of the product of two 16-bit values
MulLo16(a, b) == ((((a \div 256) * b) % 256) * 256 + (a % 256) * b) % Half

\* high 16 bits of the 32-bit product of two 16-bit values
MulHi16(a, b) ==
  ((a \div 256) * b) \div 256
  + ((((a \div 256) * b) % 256) * 256 + (a % 256) * b) \div Half

\* Math.imul: the low 32 bits of the product
Imul(a, b) ==
  CHOOSE r \in {W((MulHi16(p[2], q[2]) + MulLo16(p[1], q[2]) + MulLo16(p[2], q[1])) % Half,
                    MulLo16(p[2], q[2])) : p \in {a}, q \in {b}} : TRUE

(***************************************************************************)
(* The seeded RNG of game.ts.  A seed string is its sequence of UTF-16     *)
(* code units (str.charCodeAt).                                            *)
(***************************************************************************)
\* one round of the for loop of xmur3 on the code unit c
xmur3Round(h, c) == WRotl(Imul(WXor(h, W(0, c)), W(52382, 11601)), 13)

RECURSIVE xmur3Mix(_, _, _)
\* the for loop of xmur3 from index i (1-based) on; the round is bound to h1
\* by a singleton set so that it is computed before the loop goes on
xmur3Mix(h, str, i) ==
  IF i > Len(str) THEN h
  ELSE CHOOSE r \in {xmur3Mix(h1, str, i + 1) : h1 \in {xmur3Round(h, str[i])}} : TRUE

\* the closure returned by xmur3, called once on the hash h of the loop
xmur3Final(h) ==
  LET h1 == Imul(WXor(h, WShr16(h)), W(34283, 51819))
      h2 == Imul(WXor(h1, WShr(h1, 13)), W(49842, 44597))
  IN  WXor(h2, WShr16(h2))

\* xmur3(str)(): the hash after the loop, finalised by the first call of the closure
xmur3(str) ==
  CHOOSE r \in {xmur3Final(h0) :
                  h0 \in {xmur3Mix(WXor(W(27145, 58983), W(0, Len(str))), str, 1)}} : TRUE

\* mulberry32, line 1 of the closure: a += 0x6d2b79f5 (a is only ever read
\* through 32-bit operators, so it is kept modulo 2^32)
mulberryAdd(a) == WAdd(a, W(27947, 31221))

\* mulberry32, line 2 of the closure: t = Math.imul(t ^ (t >>> 15), t | 1)
mulberryT1(t) == Imul(WXor(t, WShr(t, 15)), WOr(t, W(0, 1)))

\* mulberry32, line 3 of the closure: t ^= t + Math.imul(t ^ (t >>> 7), t | 61)
mulberryT2(t) == WXor(t, WAdd(t, Imul(WXor(t, WShr(t, 7)), WOr(t, W(0, 61)))))

\* mulberry32, the return statement: the numerator u = (t ^ (t >>> 14)) >>> 0
\* of the returned float u / 4294967296, with the new closure state a
mulberryOut(a, t) == [state |-> a, value |-> WXor(t, WShr(t, 14))]

mulberryLine3(a, t) == CHOOSE r \in {mulberryOut(a, t2) : t2 \in {mulberryT2(t)}} : TRUE

mulberryLine2(a) == CHOOSE r \in {mulberryLine3(a, t1) : t1 \in {mulberryT1(a)}} : TRUE

\* one call of the mulberry32 closure from state a
mulberry32(a) == CHOOSE r \in {mulberryLine2(a1) : a1 \in {mulberryAdd(a)}} : TRUE

VARIABLE
  generator  \* the state a of the closure that createRng gave the latest
             \* createGameState, as the calls made by shuffle have left it

\* createRng handing back the generator of the deal before, not a new one
createRng_sharedGenerator(seed) == generator

\* createRng(seed): the state a the closure mulberry32(state) starts from
createRng(seed) == xmur3(seed)

\* Math.floor((u / 4294967296) * n) for a 32-bit u and 0 < n <= 52: both the
\* division by 2^32 and the product are exact in IEEE-754 doubles
FloorScale(u, n) == (u[1] * n + ((u[2] * n) \div Half)) \div Half

(***************************************************************************)
(* Deck and shuffle.                                                       *)
(***************************************************************************)
Suits == <<"H", "D", "C", "S">>

MaxRank == 13

\* a card; its id `${suit}${rank}` is kept as the pair <<suit, rank>>
Card(suit, rank) == [id |-> <<suit, rank>>, rank |-> rank, suit |-> suit]

\* the null card of Slot.card and GameState.hold
NoCard == [id |-> <<"-", 0>>, rank |-> 0, suit |-> "-"]

createDeck ==
  [k \in 1..(Len(Suits) * MaxRank) |->
     Card(Suits[((k - 1) \div MaxRank) + 1], ((k - 1) % MaxRank) + 1)]

\* the swap written without the temporary: deck[i] = deck[j] only
swapAt_overwrites(deck, j, i) == [deck EXCEPT ![i + 1] = deck[j + 1]]

\* const j = Math.floor(rng() * (i + 1)) and the swap of deck[i], deck[j]
swapAt(deck, j, i) == [deck EXCEPT ![i + 1] = deck[j + 1], ![j + 1] = deck[i + 1]]

\* one pass of the loop body of shuffle at JS index i: st is the deck and the
\* rng state before the pass
shuffleSwap(st, i) ==
  CHOOSE n \in {[deck |-> swapAt(st.deck, j, i), rng |-> r.state] :
                  r \in {mulberry32(st.rng)},
                  j \in {FloorScale(mulberry32(st.rng).value, i + 1)}} : TRUE

RECURSIVE shuffleRange(_, _, _)
\* the passes of the loop of shuffle for i = hi, hi - 1, ..., lo in that order.
\* The range is halved and the first half is bound by a singleton set, so the
\* passes are computed one after the other with an evaluation depth of log(hi - lo)
shuffleRange(st, hi, lo) ==
  IF hi < lo THEN st
  ELSE IF hi = lo THEN shuffleSwap(st, hi)
  ELSE LET mid == (hi + lo) \div 2
       IN  CHOOSE r \in {shuffleRange(s1, mid, lo) :
                           s1 \in {shuffleRange(st, hi, mid + 1)}} : TRUE

shuffle(deck, rngState) ==
  shuffleRange([deck |-> deck, rng |-> rngState], Len(deck) - 1, 1).deck

(***************************************************************************)
(* The static layout graph of game.ts.                                     *)
(***************************************************************************)
ROWS ==
  << [row |-> 0, xs |-> <<4, 10, 16>>],
     [row |-> 1, xs |-> <<3, 5, 9, 11, 15, 17>>],
     [row |-> 2, xs |-> <<2, 4, 6, 8, 10, 12, 14, 16, 18>>],
     [row |-> 3, xs |-> <<1, 3, 5, 7, 9, 11, 13, 15, 17, 19>> ] >>

POWERUP_ORDER == <<"wild", "bomb", "rainbow">>

BASE_POINTS == 100

STOCK_BONUS == 200

\* the result of a Map lookup that finds nothing
Undefined == -1

RECURSIVE buildLayoutFrom(_, _)
\* the slots of rows r.. of ROWS, the first of them getting the id `id`
buildLayoutFrom(r, id) ==
  IF r > Len(ROWS) THEN << >>
  ELSE LET xs == ROWS[r].xs
       IN  [k \in 1..Len(xs) |->
              [id |-> id + k - 1, row |-> ROWS[r].row, x |-> xs[k], card |-> NoCard]]
           \o buildLayoutFrom(r + 1, id + Len(xs))

\* Slot[] as a sequence: the slot with id i is at index i + 1
buildLayout == buildLayoutFrom(1, 0)

\* lookup.get(`${row}:${x}`): a later slot with the same key replaces an earlier one
LookupGet(layout, row, x) ==
  LET hits == {k \in 1..Len(layout) : layout[k].row = row /\ layout[k].x = x}
  IN  IF hits = {} THEN Undefined
      ELSE layout[CHOOSE k \in hits : \A m \in hits : m <= k].id

\* parents[childId] in push order: the slots are visited in layout order and
\* each pushes itself onto its left and its right child
buildParents(layout) ==
  [c \in {layout[k].id : k \in 1..Len(layout)} |->
     LET covers(s) == \/ LookupGet(layout, s.row + 1, s.x - 1) = c
                      \/ LookupGet(layout, s.row + 1, s.x + 1) = c
         sel == SelectSeq(layout, covers)
     IN  [k \in 1..Len(sel) |-> sel[k].id]]

\* buildAdjacency adding the parents only
buildAdjacency_parentsOnly(layout, parents) ==
  [i \in {layout[k].id : k \in 1..Len(layout)} |-> parents[i]]

\* Array.from(neighbors): the parents, then the left and the right child, a
\* Set keeping the first insertion of each id
buildAdjacency(layout, parents) ==
  [i \in {layout[k].id : k \in 1..Len(layout)} |->
     LET slot == layout[CHOOSE k \in 1..Len(layout) : layout[k].id = i]
         ps == parents[i]
         has(seq, v) == \E k \in 1..Len(seq) : seq[k] = v
         leftId == LookupGet(layout, slot.row + 1, slot.x - 1)
         rightId == LookupGet(layout, slot.row + 1, slot.x + 1)
         withLeft == IF leftId # Undefined /\ ~has(ps, leftId) THEN Append(ps, leftId) ELSE ps
     IN  IF rightId # Undefined /\ ~has(withLeft, rightId)
         THEN Append(withLeft, rightId) ELSE withLeft]

LAYOUT == buildLayout

PARENTS == buildParents(LAYOUT)

ADJACENCY == buildAdjacency(LAYOUT, PARENTS)

SlotIds == 0..(Len(LAYOUT) - 1)

(***************************************************************************)
(* Dealing, rank adjacency and exposure (game.ts).                         *)
(***************************************************************************)
\* createGameState reading the up-card without popping it off the stock
dealDeck_keepsUpCard(seed, deck) ==
  LET tableau == [i \in SlotIds |->
                    [LAYOUT[i + 1] EXCEPT !.card =
                       IF i + 1 <= Len(deck) THEN deck[i + 1] ELSE NoCard]]
      rest == SubSeq(deck, Len(LAYOUT) + 1, Len(deck))
      stock == rest
      waste == IF Len(rest) > 0 THEN << rest[Len(rest)] >> ELSE << >>
  IN  [seed |-> seed, tableau |-> tableau, stock |-> stock, waste |-> waste,
       hold |-> NoCard, score |-> 0, combo |-> 0,
       powerups |-> [wild |-> 0, bomb |-> 0, rainbow |-> 0],
       activePowerup |-> "none", powerupCycle |-> 0, wrapEnabled |-> TRUE,
       status |-> "playing", bonusAwarded |-> FALSE]

\* the GameState built by createGameState from the shuffled deck
dealDeck(seed, deck) ==
  LET tableau == [i \in SlotIds |->
                    [LAYOUT[i + 1] EXCEPT !.card =
                       IF i + 1 <= Len(deck) THEN deck[i + 1] ELSE NoCard]]
      rest == SubSeq(deck, Len(LAYOUT) + 1, Len(deck))
      stock == IF Len(rest) > 0 THEN SubSeq(rest, 1, Len(rest) - 1) ELSE rest
      waste == IF Len(rest) > 0 THEN << rest[Len(rest)] >> ELSE << >>
  IN  [seed |-> seed, tableau |-> tableau, stock |-> stock, waste |-> waste,
       hold |-> NoCard, score |-> 0, combo |-> 0,
       powerups |-> [wild |-> 0, bomb |-> 0, rainbow |-> 0],
       activePowerup |-> "none", powerupCycle |-> 0, wrapEnabled |-> TRUE,
       status |-> "playing", bonusAwarded |-> FALSE]

createGameState(seed) ==
  CHOOSE g \in {dealDeck(seed, deck) : deck \in {shuffle(createDeck, createRng(seed))}} : TRUE

\* the difference of the ranks taken without Math.abs
Abs_signed(n) == n

Abs(n) == IF n < 0 THEN 0 - n ELSE n

\* isAdjacentRank without the wrap branch
isAdjacentRank_noWrap(a, b, wrapEnabled) ==
  IF Abs(a - b) = 1 THEN TRUE
  ELSE FALSE

isAdjacentRank(a, b, wrapEnabled) ==
  IF Abs(a - b) = 1 THEN TRUE
  ELSE IF ~wrapEnabled THEN FALSE
  ELSE (a = 1 /\ b = 13) \/ (a = 13 /\ b = 1)

\* isExposed without the test on the covering slots
isExposed_ignoresParents(slot, tableau) ==
  IF slot.card = NoCard THEN FALSE
  ELSE TRUE

\* isExposed written with some in place of every
isExposed_someParentGone(slot, tableau) ==
  IF slot.card = NoCard THEN FALSE
  ELSE \/ Len(PARENTS[slot.id]) = 0
       \/ \E k \in 1..Len(PARENTS[slot.id]) : tableau[PARENTS[slot.id][k]].card = NoCard

isExposed(slot, tableau) ==
  IF slot.card = NoCard THEN FALSE
  ELSE \A k \in 1..Len(PARENTS[slot.id]) : tableau[PARENTS[slot.id][k]].card = NoCard

RECURSIVE exposedFrom(_, _)
\* the loop of getExposedIds from slot index i on: ids in increasing order
exposedFrom(tableau, i) ==
  IF i \notin DOMAIN tableau THEN << >>
  ELSE (IF isExposed(tableau[i], tableau) THEN << tableau[i].id >> ELSE << >>)
       \o exposedFrom(tableau, i + 1)

\* the loop of getExposedIds started at index 1
getExposedIds_skipsFirst(tableau) == exposedFrom(tableau, 1)

getExposedIds(tableau) == exposedFrom(tableau, 0)

(***************************************************************************)
(* Scoring, powerup grants and the terminal check (App.tsx).               *)
(***************************************************************************)
Min(a, b) == IF a <= b THEN a ELSE b

Max(a, b) == IF a >= b THEN a ELSE b

\* getComboMultiplier without the cap of Math.min
getComboMultiplierHalves_uncapped(combo) ==
  IF combo <= 0 THEN 2
  ELSE 2 + (combo \div 3)

\* getComboMultiplier in halves: 1 + Math.min(steps * 0.5, 2) is
\* (2 + min(steps, 4)) / 2, and every value involved is a multiple of 0.5
getComboMultiplierHalves(combo) ==
  IF combo <= 0 THEN 2
  ELSE 2 + Min(combo \div 3, 4)

\* Math.round(h / 2) for a natural number of halves h: .5 rounds up
RoundHalves(h) == (h + 1) \div 2

RECURSIVE grantLoop(_, _, _, _)
\* the for loop of grantPowerups from `combo` up to newCombo
grantLoop(combo, newCombo, inventory, nextCycle) ==
  IF combo > newCombo THEN [inventory |-> inventory, nextCycle |-> nextCycle]
  ELSE IF combo % 3 = 0
       THEN LET powerup == POWERUP_ORDER[(nextCycle % Len(POWERUP_ORDER)) + 1]
            IN  grantLoop(combo + 1, newCombo,
                          [inventory EXCEPT ![powerup] = @ + 1], nextCycle + 1)
       ELSE grantLoop(combo + 1, newCombo, inventory, nextCycle)

\* the loop of grantPowerups started at oldCombo instead of oldCombo + 1
grantPowerups_fromOld(oldCombo, newCombo, inventory, cycleIndex) ==
  grantLoop(oldCombo, newCombo, inventory, cycleIndex)

\* grantPowerups handing back the cursor it was given
grantPowerups_cursorStuck(oldCombo, newCombo, inventory, cycleIndex) ==
  [inventory |-> grantLoop(oldCombo + 1, newCombo, inventory, cycleIndex).inventory,
   nextCycle |-> cycleIndex]

grantPowerups(oldCombo, newCombo, inventory, cycleIndex) ==
  grantLoop(oldCombo + 1, newCombo, inventory, cycleIndex)

\* the top of a pile (its last element), NoCard standing for undefined
Top(pile) == IF Len(pile) = 0 THEN NoCard ELSE pile[Len(pile)]

\* Array.prototype.pop applied to a copy: the pile without its top
Pop(pile) == SubSeq(pile, 1, Len(pile) - 1)

\* evaluateState testing for a loss before it tests for a win
evaluateState_lossFirst(state) ==
  IF state.status # "playing" THEN state
  ELSE LET exposedIds == getExposedIds(state.tableau)
           wasteTop == Top(state.waste)
           hasPowerup ==
             \/ state.activePowerup # "none"
             \/ state.powerups.wild + state.powerups.bomb + state.powerups.rainbow > 0
           canPlay ==
             IF wasteTop # NoCard
             THEN \E k \in 1..Len(exposedIds) :
                    LET card == state.tableau[exposedIds[k]].card
                    IN  IF card # NoCard
                        THEN isAdjacentRank(card.rank, wasteTop.rank, state.wrapEnabled)
                        ELSE FALSE
             ELSE FALSE
       IN  IF Len(state.stock) = 0 /\ Len(exposedIds) = 0
           THEN [state EXCEPT !.status = "lost"]
           ELSE IF Len(state.stock) = 0 /\ ~hasPowerup /\ ~canPlay
           THEN [state EXCEPT !.status = "lost"]
           ELSE IF \A i \in DOMAIN state.tableau : state.tableau[i].card = NoCard
           THEN IF ~state.bonusAwarded
                THEN [state EXCEPT !.score = state.score + Len(state.stock) * STOCK_BONUS,
                                   !.status = "won", !.bonusAwarded = TRUE]
                ELSE [state EXCEPT !.status = "won"]
           ELSE state

\* evaluateState that leaves bonusAwarded as it was
evaluateState_bonusUnmarked(state) ==
  IF state.status # "playing" THEN state
  ELSE IF \A i \in DOMAIN state.tableau : state.tableau[i].card = NoCard
  THEN IF ~state.bonusAwarded
       THEN [state EXCEPT !.score = state.score + Len(state.stock) * STOCK_BONUS,
                          !.status = "won"]
       ELSE [state EXCEPT !.status = "won"]
  ELSE IF Len(state.stock) = 0
  THEN LET exposedIds == getExposedIds(state.tableau)
           wasteTop == Top(state.waste)
           hasPowerup ==
             \/ state.activePowerup # "none"
             \/ state.powerups.wild + state.powerups.bomb + state.powerups.rainbow > 0
           canPlay ==
             IF wasteTop # NoCard
             THEN \E k \in 1..Len(exposedIds) :
                    LET card == state.tableau[exposedIds[k]].card
                    IN  IF card # NoCard
                        THEN isAdjacentRank(card.rank, wasteTop.rank, state.wrapEnabled)
                        ELSE FALSE
             ELSE FALSE
       IN  IF Len(exposedIds) = 0 THEN [state EXCEPT !.status = "lost"]
           ELSE IF ~hasPowerup /\ ~canPlay THEN [state EXCEPT !.status = "lost"]
           ELSE state
  ELSE state

\* evaluateState counting only the active powerup as available
evaluateState_activeOnly(state) ==
  IF state.status # "playing" THEN state
  ELSE IF \A i \in DOMAIN state.tableau : state.tableau[i].card = NoCard
  THEN IF ~state.bonusAwarded
       THEN [state EXCEPT !.score = state.score + Len(state.stock) * STOCK_BONUS,
                          !.status = "won", !.bonusAwarded = TRUE]
       ELSE [state EXCEPT !.status = "won"]
  ELSE IF Len(state.stock) = 0
  THEN LET exposedIds == getExposedIds(state.tableau)
           wasteTop == Top(state.waste)
           hasPowerup ==
             \/ state.activePowerup # "none"
             \/ FALSE
           canPlay ==
             IF wasteTop # NoCard
             THEN \E k \in 1..Len(exposedIds) :
                    LET card == state.tableau[exposedIds[k]].card
                    IN  IF card # NoCard
                        THEN isAdjacentRank(card.rank, wasteTop.rank, state.wrapEnabled)
                        ELSE FALSE
             ELSE FALSE
       IN  IF Len(exposedIds) = 0 THEN [state EXCEPT !.status = "lost"]
           ELSE IF ~hasPowerup /\ ~canPlay THEN [state EXCEPT !.status = "lost"]
           ELSE state
  ELSE state

\* evaluateState counting the card a Hold would bring up as a move
evaluateState_holdCounts(state) ==
  IF state.status # "playing" THEN state
  ELSE IF \A i \in DOMAIN state.tableau : state.tableau[i].card = NoCard
  THEN IF ~state.bonusAwarded
       THEN [state EXCEPT !.score = state.score + Len(state.stock) * STOCK_BONUS,
                          !.status = "won", !.bonusAwarded = TRUE]
       ELSE [state EXCEPT !.status = "won"]
  ELSE IF Len(state.stock) = 0
  THEN LET exposedIds == getExposedIds(state.tableau)
           wasteTop == Top(state.waste)
           hasPowerup ==
             \/ state.activePowerup # "none"
             \/ state.powerups.wild + state.powerups.bomb + state.powerups.rainbow > 0
           canPlay ==
             IF wasteTop # NoCard
             THEN \E k \in 1..Len(exposedIds) :
                    LET card == state.tableau[exposedIds[k]].card
                    IN  IF card # NoCard
                        THEN isAdjacentRank(card.rank, wasteTop.rank, state.wrapEnabled)
                        ELSE FALSE
             ELSE FALSE
           held == IF state.hold # NoCard THEN state.hold
                   ELSE IF Len(state.waste) >= 2 THEN state.waste[Len(state.waste) - 1]
                   ELSE NoCard
           canHoldPlay ==
             IF held # NoCard
             THEN \E k \in 1..Len(exposedIds) :
                    isAdjacentRank(state.tableau[exposedIds[k]].card.rank, held.rank,
                                   state.wrapEnabled)
             ELSE FALSE
       IN  IF Len(exposedIds) = 0 THEN [state EXCEPT !.status = "lost"]
           ELSE IF ~hasPowerup /\ ~canPlay /\ ~canHoldPlay THEN [state EXCEPT !.status = "lost"]
           ELSE state
  ELSE state

evaluateState(state) ==
  IF state.status # "playing" THEN state
  ELSE IF \A i \in DOMAIN state.tableau : state.tableau[i].card = NoCard
  THEN IF ~state.bonusAwarded
       THEN [state EXCEPT !.score = state.score + Len(state.stock) * STOCK_BONUS,
                          !.status = "won", !.bonusAwarded = TRUE]
       ELSE [state EXCEPT !.status = "won"]
  ELSE IF Len(state.stock) = 0
  THEN LET exposedIds == getExposedIds(state.tableau)
           wasteTop == Top(state.waste)
           hasPowerup ==
             \/ state.activePowerup # "none"
             \/ state.powerups.wild + state.powerups.bomb + state.powerups.rainbow > 0
           canPlay ==
             IF wasteTop # NoCard
             THEN \E k \in 1..Len(exposedIds) :
                    LET card == state.tableau[exposedIds[k]].card
                    IN  IF card # NoCard
                        THEN isAdjacentRank(card.rank, wasteTop.rank, state.wrapEnabled)
                        ELSE FALSE
             ELSE FALSE
       IN  IF Len(exposedIds) = 0 THEN [state EXCEPT !.status = "lost"]
           ELSE IF ~hasPowerup /\ ~canPlay THEN [state EXCEPT !.status = "lost"]
           ELSE state
  ELSE state

(***************************************************************************)
(* The handlers of App.  Each takes the current GameState and the history  *)
(* stack and yields both after the handler has run.                        *)
(***************************************************************************)
Pair(g, h) == [game |-> g, history |-> h]

\* commitState pushing the state it commits instead of the one it replaces
commitState_pushesNext(prev, next, stack) ==
  IF next = prev THEN Pair(prev, stack)
  ELSE Pair(next, Append(stack, next))

commitState(prev, next, stack) ==
  IF next = prev THEN Pair(prev, stack)
  ELSE Pair(next, Append(stack, prev))

\* whether v occurs in the sequence seq (Set.has / Array.includes)
Has(seq, v) == \E k \in 1..Len(seq) : seq[k] = v

RECURSIVE Dedupe(_)
\* Array.from(new Set(seq)): the first occurrence of each element, in order
Dedupe(seq) ==
  IF Len(seq) = 0 THEN << >>
  ELSE LET front == Dedupe(SubSeq(seq, 1, Len(seq) - 1))
       IN  IF Has(front, seq[Len(seq)]) THEN front ELSE Append(front, seq[Len(seq)])

\* applyClear without the decrement of the powerup spent
applyClear_keepsPowerup(prev, clearedIds, wasteCard, powerupSpent) ==
  IF wasteCard = NoCard THEN prev
  ELSE LET nextTableau ==
             [i \in DOMAIN prev.tableau |->
                IF Has(clearedIds, prev.tableau[i].id)
                THEN [prev.tableau[i] EXCEPT !.card = NoCard]
                ELSE prev.tableau[i]]
           clearedCount == Len(clearedIds)
           nextCombo == prev.combo + clearedCount
           scoreGain ==
             RoundHalves(clearedCount * BASE_POINTS * getComboMultiplierHalves(nextCombo))
           nextPowerups ==
             prev.powerups
           granted == grantPowerups(prev.combo, nextCombo, nextPowerups, prev.powerupCycle)
       IN  [prev EXCEPT !.tableau = nextTableau,
                        !.waste = Append(prev.waste, wasteCard),
                        !.combo = nextCombo,
                        !.score = prev.score + scoreGain,
                        !.powerups = granted.inventory,
                        !.powerupCycle = granted.nextCycle,
                        !.activePowerup = "none"]

\* applyClear leaving activePowerup as it was
applyClear_keepsActive(prev, clearedIds, wasteCard, powerupSpent) ==
  IF wasteCard = NoCard THEN prev
  ELSE LET nextTableau ==
             [i \in DOMAIN prev.tableau |->
                IF Has(clearedIds, prev.tableau[i].id)
                THEN [prev.tableau[i] EXCEPT !.card = NoCard]
                ELSE prev.tableau[i]]
           clearedCount == Len(clearedIds)
           nextCombo == prev.combo + clearedCount
           scoreGain ==
             RoundHalves(clearedCount * BASE_POINTS * getComboMultiplierHalves(nextCombo))
           nextPowerups ==
             IF powerupSpent # "none"
             THEN [prev.powerups EXCEPT ![powerupSpent] = Max(0, @ - 1)]
             ELSE prev.powerups
           granted == grantPowerups(prev.combo, nextCombo, nextPowerups, prev.powerupCycle)
       IN  [prev EXCEPT !.tableau = nextTableau,
                        !.waste = Append(prev.waste, wasteCard),
                        !.combo = nextCombo,
                        !.score = prev.score + scoreGain,
                        !.powerups = granted.inventory,
                        !.powerupCycle = granted.nextCycle]

\* applyClear counting only the cards of this clear into combo
applyClear_comboFromCount(prev, clearedIds, wasteCard, powerupSpent) ==
  IF wasteCard = NoCard THEN prev
  ELSE LET nextTableau ==
             [i \in DOMAIN prev.tableau |->
                IF Has(clearedIds, prev.tableau[i].id)
                THEN [prev.tableau[i] EXCEPT !.card = NoCard]
                ELSE prev.tableau[i]]
           clearedCount == Len(clearedIds)
           nextCombo == clearedCount
           scoreGain ==
             RoundHalves(clearedCount * BASE_POINTS * getComboMultiplierHalves(nextCombo))
           nextPowerups ==
             IF powerupSpent # "none"
             THEN [prev.powerups EXCEPT ![powerupSpent] = Max(0, @ - 1)]
             ELSE prev.powerups
           granted == grantPowerups(prev.combo, nextCombo, nextPowerups, prev.powerupCycle)
       IN  [prev EXCEPT !.tableau = nextTableau,
                        !.waste = Append(prev.waste, wasteCard),
                        !.combo = nextCombo,
                        !.score = prev.score + scoreGain,
                        !.powerups = granted.inventory,
                        !.powerupCycle = granted.nextCycle,
                        !.activePowerup = "none"]

applyClear(prev, clearedIds, wasteCard, powerupSpent) ==
  IF wasteCard = NoCard THEN prev
  ELSE LET nextTableau ==
             [i \in DOMAIN prev.tableau |->
                IF Has(clearedIds, prev.tableau[i].id)
                THEN [prev.tableau[i] EXCEPT !.card = NoCard]
                ELSE prev.tableau[i]]
           clearedCount == Len(clearedIds)
           nextCombo == prev.combo + clearedCount
           scoreGain ==
             RoundHalves(clearedCount * BASE_POINTS * getComboMultiplierHalves(nextCombo))
           nextPowerups ==
             IF powerupSpent # "none"
             THEN [prev.powerups EXCEPT ![powerupSpent] = Max(0, @ - 1)]
             ELSE prev.powerups
           granted == grantPowerups(prev.combo, nextCombo, nextPowerups, prev.powerupCycle)
       IN  [prev EXCEPT !.tableau = nextTableau,
                        !.waste = Append(prev.waste, wasteCard),
                        !.combo = nextCombo,
                        !.score = prev.score + scoreGain,
                        !.powerups = granted.inventory,
                        !.powerupCycle = granted.nextCycle,
                        !.activePowerup = "none"]

\* the bomb branch without the filter on exposed neighbours
clearedFor_bombAllNeighbours(prev, slotId) ==
  LET currentExposedIds == getExposedIds(prev.tableau)
  IN  IF prev.activePowerup = "bomb"
      THEN Dedupe(<< slotId >> \o ADJACENCY[slotId])
      ELSE IF prev.activePowerup = "rainbow"
      THEN SelectSeq(currentExposedIds,
                     LAMBDA id : prev.tableau[id].card.rank = prev.tableau[slotId].card.rank)
      ELSE << slotId >>

\* the rainbow branch filtering every slot of the tableau, exposed or not
clearedFor_rainbowAllSlots(prev, slotId) ==
  LET currentExposedIds == getExposedIds(prev.tableau)
  IN  IF prev.activePowerup = "bomb"
      THEN Dedupe(<< slotId >> \o
                  SelectSeq(ADJACENCY[slotId], LAMBDA id : Has(currentExposedIds, id)))
      ELSE IF prev.activePowerup = "rainbow"
      THEN SelectSeq([k \in 1..Len(LAYOUT) |-> LAYOUT[k].id],
                     LAMBDA id : prev.tableau[id].card.rank = prev.tableau[slotId].card.rank)
      ELSE << slotId >>

\* isCardPlayable without the line for the active powerup
isCardPlayable_plainOnly(exposed, card, wasteTop, activePowerup, wrapEnabled) ==
  IF ~exposed THEN FALSE
  ELSE IF wasteTop = NoCard THEN FALSE
  ELSE isAdjacentRank(card.rank, wasteTop.rank, wrapEnabled)

\* isCardPlayable: what the board uses to enable the button of a card
isCardPlayable(exposed, card, wasteTop, activePowerup, wrapEnabled) ==
  IF ~exposed THEN FALSE
  ELSE IF activePowerup # "none" THEN TRUE
  ELSE IF wasteTop = NoCard THEN FALSE
  ELSE isAdjacentRank(card.rank, wasteTop.rank, wrapEnabled)

\* the `playable` the board computes for the card of slot slotId of state g
playable(g, slotId) ==
  isCardPlayable(Has(getExposedIds(g.tableau), slotId), g.tableau[slotId].card,
                 Top(g.waste), g.activePowerup, g.wrapEnabled)

\* the clear set handleCardClick passes to applyClear for an exposed slot
clearedFor(prev, slotId) ==
  LET currentExposedIds == getExposedIds(prev.tableau)
  IN  IF prev.activePowerup = "bomb"
      THEN Dedupe(<< slotId >> \o
                  SelectSeq(ADJACENCY[slotId], LAMBDA id : Has(currentExposedIds, id)))
      ELSE IF prev.activePowerup = "rainbow"
      THEN SelectSeq(currentExposedIds,
                     LAMBDA id : prev.tableau[id].card.rank = prev.tableau[slotId].card.rank)
      ELSE << slotId >>

\* handleCardClick leaving the wrap argument of isAdjacentRank to its default
handleCardClick_defaultWrap(prev, stack, slotId) ==
  IF prev.status # "playing" THEN Pair(prev, stack)
  ELSE IF slotId \notin DOMAIN prev.tableau THEN Pair(prev, stack)
  ELSE IF prev.tableau[slotId].card = NoCard THEN Pair(prev, stack)
  ELSE IF ~isExposed(prev.tableau[slotId], prev.tableau) THEN Pair(prev, stack)
  ELSE LET slot == prev.tableau[slotId]
           currentWasteTop == Top(prev.waste)
           cleared == applyClear(prev, clearedFor(prev, slotId), slot.card, prev.activePowerup)
       IN  IF prev.activePowerup = "none"
           THEN IF currentWasteTop = NoCard THEN Pair(prev, stack)
                ELSE IF ~isAdjacentRank(slot.card.rank, currentWasteTop.rank, TRUE)
                THEN Pair(prev, stack)
                ELSE commitState(prev, evaluateState(cleared), stack)
           ELSE IF prev.powerups[prev.activePowerup] <= 0 THEN Pair(prev, stack)
           ELSE commitState(prev, evaluateState(cleared), stack)

\* handleCardClick without the test of exposure
handleCardClick_coveredToo(prev, stack, slotId) ==
  IF prev.status # "playing" THEN Pair(prev, stack)
  ELSE IF slotId \notin DOMAIN prev.tableau THEN Pair(prev, stack)
  ELSE IF prev.tableau[slotId].card = NoCard THEN Pair(prev, stack)
  ELSE LET slot == prev.tableau[slotId]
           currentWasteTop == Top(prev.waste)
           cleared == applyClear(prev, clearedFor(prev, slotId), slot.card, prev.activePowerup)
       IN  IF prev.activePowerup = "none"
           THEN IF currentWasteTop = NoCard THEN Pair(prev, stack)
                ELSE IF ~isAdjacentRank(slot.card.rank, currentWasteTop.rank, prev.wrapEnabled)
                THEN Pair(prev, stack)
                ELSE commitState(prev, evaluateState(cleared), stack)
           ELSE IF prev.powerups[prev.activePowerup] <= 0 THEN Pair(prev, stack)
           ELSE commitState(prev, evaluateState(cleared), stack)

handleCardClick(prev, stack, slotId) ==
  IF prev.status # "playing" THEN Pair(prev, stack)
  ELSE IF slotId \notin DOMAIN prev.tableau THEN Pair(prev, stack)
  ELSE IF prev.tableau[slotId].card = NoCard THEN Pair(prev, stack)
  ELSE IF ~isExposed(prev.tableau[slotId], prev.tableau) THEN Pair(prev, stack)
  ELSE LET slot == prev.tableau[slotId]
           currentWasteTop == Top(prev.waste)
           cleared == applyClear(prev, clearedFor(prev, slotId), slot.card, prev.activePowerup)
       IN  IF prev.activePowerup = "none"
           THEN IF currentWasteTop = NoCard THEN Pair(prev, stack)
                ELSE IF ~isAdjacentRank(slot.card.rank, currentWasteTop.rank, prev.wrapEnabled)
                THEN Pair(prev, stack)
                ELSE commitState(prev, evaluateState(cleared), stack)
           ELSE IF prev.powerups[prev.activePowerup] <= 0 THEN Pair(prev, stack)
           ELSE commitState(prev, evaluateState(cleared), stack)

\* drawFromStock taking the first card of the stock array, not the last
drawFromStock_fromBottom(prev, stack) ==
  IF prev.status # "playing" THEN Pair(prev, stack)
  ELSE IF Len(prev.stock) = 0 THEN Pair(prev, stack)
  ELSE LET next == [prev EXCEPT !.stock = SubSeq(prev.stock, 2, Len(prev.stock)),
                                !.waste = Append(prev.waste, prev.stock[1]),
                                !.combo = 0,
                                !.activePowerup = "none"]
       IN  commitState(prev, evaluateState(next), stack)

\* drawFromStock reading the top card of the stock without popping it
drawFromStock_keepsStock(prev, stack) ==
  IF prev.status # "playing" THEN Pair(prev, stack)
  ELSE IF Len(prev.stock) = 0 THEN Pair(prev, stack)
  ELSE LET next == [prev EXCEPT !.waste = Append(prev.waste, Top(prev.stock)),
                                !.combo = 0,
                                !.activePowerup = "none"]
       IN  commitState(prev, evaluateState(next), stack)

drawFromStock(prev, stack) ==
  IF prev.status # "playing" THEN Pair(prev, stack)
  ELSE IF Len(prev.stock) = 0 THEN Pair(prev, stack)
  ELSE LET next == [prev EXCEPT !.stock = Pop(prev.stock),
                                !.waste = Append(prev.waste, Top(prev.stock)),
                                !.combo = 0,
                                !.activePowerup = "none"]
       IN  commitState(prev, evaluateState(next), stack)

\* useHold forgetting to put the held card back on the waste
useHold_dropsHold(prev, stack) ==
  IF prev.status # "playing" THEN Pair(prev, stack)
  ELSE IF Len(prev.waste) = 0 THEN Pair(prev, stack)
  ELSE LET popped == Pop(prev.waste)
           next == [prev EXCEPT !.waste = popped,
                                !.hold = Top(prev.waste),
                                !.combo = 0,
                                !.activePowerup = "none"]
       IN  commitState(prev, evaluateState(next), stack)

\* useHold reading the waste top without popping it
useHold_keepsWasteTop(prev, stack) ==
  IF prev.status # "playing" THEN Pair(prev, stack)
  ELSE IF Len(prev.waste) = 0 THEN Pair(prev, stack)
  ELSE LET nextWaste == IF prev.hold # NoCard THEN Append(prev.waste, prev.hold)
                        ELSE prev.waste
           next == [prev EXCEPT !.waste = nextWaste,
                                !.hold = Top(prev.waste),
                                !.combo = 0,
                                !.activePowerup = "none"]
       IN  commitState(prev, evaluateState(next), stack)

useHold(prev, stack) ==
  IF prev.status # "playing" THEN Pair(prev, stack)
  ELSE IF Len(prev.waste) = 0 THEN Pair(prev, stack)
  ELSE LET popped == Pop(prev.waste)
           nextWaste == IF prev.hold # NoCard THEN Append(popped, prev.hold) ELSE popped
           next == [prev EXCEPT !.waste = nextWaste,
                                !.hold = Top(prev.waste),
                                !.combo = 0,
                                !.activePowerup = "none"]
       IN  commitState(prev, evaluateState(next), stack)

\* togglePowerup going through commitState like the other handlers
togglePowerup_commits(prev, stack, powerup) ==
  IF prev.status # "playing" THEN Pair(prev, stack)
  ELSE IF prev.powerups[powerup] <= 0 THEN Pair(prev, stack)
  ELSE commitState(prev,
                   [prev EXCEPT !.activePowerup =
                                  IF prev.activePowerup = powerup THEN "none" ELSE powerup],
                   stack)

\* togglePowerup deselecting whenever any powerup is active
togglePowerup_noSwitch(prev, stack, powerup) ==
  IF prev.status # "playing" THEN Pair(prev, stack)
  ELSE IF prev.powerups[powerup] <= 0 THEN Pair(prev, stack)
  ELSE Pair([prev EXCEPT !.activePowerup =
                           IF prev.activePowerup # "none" THEN "none" ELSE powerup],
            stack)

\* togglePowerup without the test of the inventory
togglePowerup_anyCount(prev, stack, powerup) ==
  IF prev.status # "playing" THEN Pair(prev, stack)
  ELSE Pair([prev EXCEPT !.activePowerup =
                           IF prev.activePowerup = powerup THEN "none" ELSE powerup],
            stack)

togglePowerup(prev, stack, powerup) ==
  IF prev.status # "playing" THEN Pair(prev, stack)
  ELSE IF prev.powerups[powerup] <= 0 THEN Pair(prev, stack)
  ELSE Pair([prev EXCEPT !.activePowerup =
                           IF prev.activePowerup = powerup THEN "none" ELSE powerup],
            stack)

\* toggleWrap reopening a finished game when the rule changes
toggleWrap_reopens(prev, stack, enabled) ==
  IF prev.wrapEnabled = enabled THEN Pair(prev, stack)
  ELSE commitState(prev, [prev EXCEPT !.wrapEnabled = enabled, !.status = "playing"], stack)

\* toggleWrap guarded by the status like the other handlers
toggleWrap_playingOnly(prev, stack, enabled) ==
  IF prev.status # "playing" THEN Pair(prev, stack)
  ELSE IF prev.wrapEnabled = enabled THEN Pair(prev, stack)
  ELSE commitState(prev, [prev EXCEPT !.wrapEnabled = enabled], stack)

\* toggleWrap running evaluateState on the state it commits
toggleWrap_reevaluates(prev, stack, enabled) ==
  IF prev.wrapEnabled = enabled THEN Pair(prev, stack)
  ELSE commitState(prev, evaluateState([prev EXCEPT !.wrapEnabled = enabled]), stack)

toggleWrap(prev, stack, enabled) ==
  IF prev.wrapEnabled = enabled THEN Pair(prev, stack)
  ELSE commitState(prev, [prev EXCEPT !.wrapEnabled = enabled], stack)

\* undo refusing to pop the last entry of the stack
undo_stopsAtOne(prev, stack) ==
  IF Len(stack) <= 1 THEN Pair(prev, stack)
  ELSE Pair(stack[Len(stack)], SubSeq(stack, 1, Len(stack) - 1))

undo(prev, stack) ==
  IF Len(stack) = 0 THEN Pair(prev, stack)
  ELSE Pair(stack[Len(stack)], SubSeq(stack, 1, Len(stack) - 1))

(***************************************************************************)
(* Seeds and new deals.                                                    *)
(***************************************************************************)
\* 'candy'
DEFAULT_SEED == <<99, 97, 110, 100, 121>>

\* the code units String.prototype.trim strips
WhiteSpace ==
  {9, 10, 11, 12, 13, 32, 160, 5760, 8232, 8233, 8239, 8287, 12288, 65279}
  \cup (8192..8202)

RECURSIVE TrimStart(_)
TrimStart(str) ==
  IF Len(str) > 0 /\ str[1] \in WhiteSpace THEN TrimStart(Tail(str)) ELSE str

RECURSIVE TrimEnd(_)
TrimEnd(str) ==
  IF Len(str) > 0 /\ str[Len(str)] \in WhiteSpace
  THEN TrimEnd(SubSeq(str, 1, Len(str) - 1)) ELSE str

\* seedInput.trim()
Trim(str) == TrimEnd(TrimStart(str))

\* the seeds the model deals: 'candy', 'a', 's910', 's129', 's2'
Seeds ==
  { DEFAULT_SEED, <<97>>, <<115, 57, 49, 48>>, <<115, 49, 50, 57>>, <<115, 50>> }

\* what the user may have typed into the seed field when Deal New Game is
\* pressed: nothing, blanks only, 'a', ' s910 ' and 'candy'
SeedInputs ==
  { << >>, <<32, 32>>, <<97>>, <<32, 115, 57, 49, 48, 32>>, DEFAULT_SEED }

\* createGameState on each seed of Seeds, computed once
DealTable == [seed \in Seeds |-> createGameState(seed)]

\* createGameState(seed), looked up in DealTable when the seed is in it
Deal(seed) == IF seed \in Seeds THEN DealTable[seed] ELSE createGameState(seed)

\* the generator of createGameState(seed) when it returns: createRng(seed)
\* after the calls of shuffle
spentRng(seed) ==
  shuffleRange([deck |-> createDeck, rng |-> createRng(seed)], Len(createDeck) - 1, 1).rng

\* spentRng on each seed of Seeds, computed once
SpentTable == [seed \in Seeds |-> spentRng(seed)]

Spent(seed) == IF seed \in Seeds THEN SpentTable[seed] ELSE spentRng(seed)

\* the generator left by the deal of a game the model starts from: seeded by
\* xmur3 and run through shuffle
StartGenerator ==
  [seed \in Seeds |->
     shuffleRange([deck |-> createDeck, rng |-> xmur3(seed)], Len(createDeck) - 1, 1).rng]

startNewGame(seedInput) ==
  LET seed == IF Len(Trim(seedInput)) > 0 THEN Trim(seedInput) ELSE DEFAULT_SEED
  IN  Pair(Deal(seed), << >>)

\* Replay Seed carrying the rule toggle over to the new deal
replaySeed_keepsWrap(prev) ==
  Pair([Deal(prev.seed) EXCEPT !.wrapEnabled = prev.wrapEnabled], << >>)

\* the onClick of the Replay Seed button
replaySeed(prev) == Pair(Deal(prev.seed), << >>)

(***************************************************************************)
(* User operations.  An operation is a record [op, arg]; Apply runs the    *)
(* handler bound to it on a pair of GameState and history.                 *)
(***************************************************************************)
Ck(slotId) == [op |-> "click", arg |-> slotId]

Dr == [op |-> "draw", arg |-> 0]

Hd == [op |-> "hold", arg |-> 0]

Sel(powerup) == [op |-> "select", arg |-> powerup]

Wr(enabled) == [op |-> "wrap", arg |-> enabled]

Un == [op |-> "undo", arg |-> 0]

Apply(p, o) ==
  CASE o.op = "click" -> handleCardClick(p.game, p.history, o.arg)
    [] o.op = "draw" -> drawFromStock(p.game, p.history)
    [] o.op = "hold" -> useHold(p.game, p.history)
    [] o.op = "select" -> togglePowerup(p.game, p.history, o.arg)
    [] o.op = "wrap" -> toggleWrap(p.game, p.history, o.arg)
    [] o.op = "undo" -> undo(p.game, p.history)

RECURSIVE Run(_, _, _, _)
\* the operations ops[lo..hi] applied in order to the pair p; the range is
\* halved and the first half bound by a singleton set, which keeps the
\* evaluation depth logarithmic
Run(p, ops, lo, hi) ==
  IF hi < lo THEN p
  ELSE IF hi = lo THEN Apply(p, ops[lo])
  ELSE CHOOSE r \in {Run(p1, ops, ((lo + hi) \div 2) + 1, hi) :
                      p1 \in {Run(p, ops, lo, (lo + hi) \div 2)}} : TRUE

\* the App after the plays of `play` on a fresh deal of its seed
Replay(play) == Run(Pair(Deal(play.seed), << >>), play.ops, 1, Len(play.ops))

(***************************************************************************)
(* Positions the model starts from besides the fresh App: each is reached  *)
(* by the listed plays from the deal of its seed, history included.        *)
(***************************************************************************)
\* seed 's910': nine clears in a row, one powerup of each kind earned
RainbowPlay ==
  [seed |-> <<115, 57, 49, 48>>,
   ops |-> << Ck(0), Ck(1), Ck(2), Ck(6), Ck(7), Ck(15), Ck(8), Ck(5), Ck(12) >>]

\* seed 's129': 22 draws, one card left in the stock
LastDrawPlay ==
  [seed |-> <<115, 49, 50, 57>>,
   ops |-> << Dr, Dr, Dr, Dr, Dr, Dr, Dr, Dr, Dr, Dr, Dr, Dr, Dr, Dr, Dr, Dr, Dr, Dr,
            Dr, Dr, Dr, Dr >>]

\* seed 's2': one card left in the tableau and one in the stock
EndgamePlay ==
  [seed |-> <<115, 50>>,
   ops |-> << Dr, Ck(0), Dr, Dr, Dr, Dr, Dr, Ck(4), Dr, Dr, Ck(3), Dr, Ck(2),
            Ck(11), Ck(1), Dr, Ck(10), Ck(20), Ck(9), Dr, Ck(7), Dr, Ck(19), Dr,
            Ck(8), Ck(6), Ck(18), Dr, Ck(5), Ck(17), Ck(12), Ck(14), Dr, Dr,
            Ck(15), Ck(16), Ck(13), Ck(27), Dr, Dr, Dr, Ck(23), Ck(24), Ck(22),
            Dr, Ck(21), Ck(25), Dr, Dr >>]

\* the App as constructed (a deal of DEFAULT_SEED, empty history) and the
\* positions above
StartPairs ==
  { Pair(Deal(DEFAULT_SEED), << >>), Replay(RainbowPlay), Replay(LastDrawPlay),
    Replay(EndgamePlay) }

(***************************************************************************)
(* The state machine.                                                      *)
(***************************************************************************)
\* the number of handler calls explored from a start position
MaxSteps == 3

VARIABLES
  game,     \* the GameState held by useState in App
  history,  \* the undo stack held by useState in App
  last,     \* the last operation that changed game or history
  steps     \* how many operations have changed game or history so far

vars == << game, history, last, steps, generator >>

Powerups == {"wild", "bomb", "rainbow"}

\* slot ids a click may carry: every slot and two ids outside the tableau
ClickInputs == SlotIds \cup {-1, Len(LAYOUT)}

Init ==
  /\ \E seed \in Seeds :
       /\ generator = StartGenerator[seed]
       /\ \E p \in StartPairs :
            p.game.seed = seed /\ game = p.game /\ history = p.history
  /\ last = [op |-> "init", arg |-> 0]
  /\ steps = 0

\* the App takes the result r of the handler run for the operation o; a
\* handler that returns its input unchanged leaves the App as it is: that
\* call is a stuttering step of Spec and is not a step of Next
Take(r, o) ==
  /\ r.game # game \/ r.history # history
  /\ steps < MaxSteps
  /\ game' = r.game
  /\ history' = r.history
  /\ last' = o
  /\ steps' = steps + 1
  /\ UNCHANGED generator

Click ==
  \E slotId \in ClickInputs :
    \E r \in {handleCardClick(game, history, slotId)} : Take(r, Ck(slotId))

Draw == \E r \in {drawFromStock(game, history)} : Take(r, Dr)

Hold == \E r \in {useHold(game, history)} : Take(r, Hd)

SelectPowerup ==
  \E k \in Powerups : \E r \in {togglePowerup(game, history, k)} : Take(r, Sel(k))

ToggleWrap ==
  \E b \in BOOLEAN : \E r \in {toggleWrap(game, history, b)} : Take(r, Wr(b))

Undo == \E r \in {undo(game, history)} : Take(r, Un)

\* Deal New Game: setHistory([]) and setGame(createGameState(seed))
DealNewGame ==
  \E seedInput \in SeedInputs : \E r \in {startNewGame(seedInput)} :
    /\ steps < MaxSteps
    /\ game' = r.game
    /\ history' = r.history
    /\ last' = [op |-> "deal", arg |-> seedInput]
    /\ steps' = steps + 1
    /\ generator' = Spent(r.game.seed)

\* Replay Seed: setHistory([]) and setGame(createGameState(game.seed))
ReplaySeed ==
  \E r \in {replaySeed(game)} :
    /\ steps < MaxSteps
    /\ game' = r.game
    /\ history' = r.history
    /\ last' = [op |-> "replay", arg |-> 0]
    /\ steps' = steps + 1
    /\ generator' = Spent(r.game.seed)

Next ==
  \/ Click
  \/ Draw
  \/ Hold
  \/ SelectPowerup
  \/ ToggleWrap
  \/ Undo
  \/ DealNewGame
  \/ ReplaySeed

Spec == Init /\ [][Next]_vars

(***************************************************************************)
(* Play to the end: the player only clicks cards and draws, as long as one *)
(* of the two is accepted.  The runs start late in a game, where they are  *)
(* few enough to be followed to their ends.                                *)
(***************************************************************************)
\* seed 's2' after the first 40 plays of EndgamePlay: six cards in the
\* tableau, five in the stock
LateGamePlay ==
  [seed |-> EndgamePlay.seed, ops |-> SubSeq(EndgamePlay.ops, 1, 40)]

\* seed 's2' after the first 42 plays of EndgamePlay and the selection of
\* the wild powerup
WildReadyPlay ==
  [seed |-> EndgamePlay.seed,
   ops |-> Append(SubSeq(EndgamePlay.ops, 1, 42), Sel("wild"))]

PlayStarts ==
  { Replay(LastDrawPlay), Replay(EndgamePlay), Replay(LateGamePlay),
    Replay(WildReadyPlay) }

PlayInit ==
  /\ \E seed \in Seeds :
       /\ generator = StartGenerator[seed]
       /\ \E p \in PlayStarts :
            p.game.seed = seed /\ game = p.game /\ history = p.history
  /\ last = [op |-> "init", arg |-> 0]
  /\ steps = 0

\* the App takes the result r of an accepted call, however many came before
Accept(r, o) ==
  /\ r.game # game \/ r.history # history
  /\ game' = r.game
  /\ history' = r.history
  /\ last' = o
  /\ steps' = steps + 1
  /\ UNCHANGED generator

PlayClick ==
  \E slotId \in SlotIds :
    \E r \in {handleCardClick(game, history, slotId)} : Accept(r, Ck(slotId))

PlayDraw == \E r \in {drawFromStock(game, history)} : Accept(r, Dr)

PlayNext ==
  \/ PlayClick
  \/ PlayDraw

\* the player goes on while a click or a draw is accepted
PlaySpec == PlayInit /\ [][PlayNext]_vars /\ WF_vars(PlayNext)

(***************************************************************************)
(* Vocabulary of the properties, stated without the engine's helpers.      *)
(***************************************************************************)
\* the cards of a GameState in one sequence: tableau, stock, waste, hold
TableauCards(g) ==
  LET occupied == SelectSeq([k \in 1..Len(LAYOUT) |-> k - 1],
                            LAMBDA i : g.tableau[i].card # NoCard)
  IN  [k \in 1..Len(occupied) |-> g.tableau[occupied[k]].card]

AllCards(g) ==
  TableauCards(g) \o g.stock \o g.waste \o (IF g.hold # NoCard THEN << g.hold >> ELSE << >>)

\* the 52 cards {H,D,C,S} x {1..13}
FullDeck == {Card(suit, rank) : suit \in {"H", "D", "C", "S"}, rank \in 1..13}

\* the cards of g are the 52 cards of the deck, each exactly once
DeckConserved(g) ==
  /\ Len(AllCards(g)) = 52
  /\ {AllCards(g)[k] : k \in 1..Len(AllCards(g))} = FullDeck

\* position i holds a card
Occupied(g, i) == g.tableau[i].card # NoCard

\* the positions of the row directly above i whose column differs by one
CoverersOf ==
  [i \in SlotIds |->
     {j \in SlotIds : /\ LAYOUT[j + 1].row = LAYOUT[i + 1].row - 1
                       /\ LAYOUT[j + 1].x - LAYOUT[i + 1].x \in {-1, 1}}]

Coverers(i) == CoverersOf[i]

Covered(g, i) == \E j \in Coverers(i) : Occupied(g, j)

ExposedSet(g) == {i \in SlotIds : Occupied(g, i) /\ ~Covered(g, i)}

\* ranks one apart, or Ace and King when wrap is enabled
RankAdjacent(a, b, wrap) == a - b = 1 \/ b - a = 1 \/ (wrap /\ {a, b} = {1, 13})

\* an exposed card can be matched on the waste top of g
HasPlainMatch(g) ==
  /\ Len(g.waste) > 0
  /\ \E i \in ExposedSet(g) :
       RankAdjacent(g.tableau[i].card.rank, g.waste[Len(g.waste)].rank, g.wrapEnabled)

TableauEmpty(g) == \A i \in SlotIds : ~Occupied(g, i)

\* the score gained by clearing n cards from combo c
ClearGain(n, c) == (n * 100 * (2 + Min((c + n) \div 3, 4))) \div 2

\* a state as Deal returns it, the cards apart
FreshFields(g) ==
  /\ g.combo = 0 /\ g.score = 0
  /\ g.powerups = [wild |-> 0, bomb |-> 0, rainbow |-> 0]
  /\ g.activePowerup = "none" /\ g.powerupCycle = 0
  /\ g.wrapEnabled = TRUE /\ g.status = "playing"
  /\ g.bonusAwarded = FALSE /\ g.hold = NoCard

\* the last operation was a new deal
JustDealt == last.op \in {"deal", "replay"}

\* C1: in every reachable state the cards in the tableau, the stock, the
\* waste and the hold slot are exactly the 52 cards of the deck, each once.
C1_DeckConservation == DeckConserved(game)

\* the operations whose effect the history records
CommittedOps == {Ck(i) : i \in SlotIds} \cup {Dr, Hd} \cup {Wr(b) : b \in BOOLEAN}

\* C2: an Undo issued right after an accepted Clear, Draw, Hold or
\* value-changing ToggleWrap restores the GameState in every field and the
\* history stack as they were before that operation.
C2_UndoExact ==
  \A o \in CommittedOps : \A r \in {Apply(Pair(game, history), o)} :
    r # Pair(game, history) => undo(r.game, r.history) = Pair(game, history)

\* an Undo has rewound an operation of this run
C2_Witness == last.op = "undo" /\ steps >= 2 /\ Len(history) > 0

\* C3 as stated: every transition that changes the GameState, a change of
\* activePowerup by SelectPowerup included, pushes exactly the prior state.
C3_EveryChangePushes ==
  [][(game' # game /\ last'.op \in {"click", "draw", "hold", "wrap", "select"})
       => history' = Append(history, game)]_vars

\* C3 amended: an accepted Clear, Draw or Hold and a value-changing
\* ToggleWrap push exactly one entry, the prior state, so that one Undo
\* rewinds exactly that transition; a SelectPowerup that changes
\* activePowerup pushes nothing.
C3_CommittedChangePushes ==
  [][/\ (game' # game /\ last'.op \in {"click", "draw", "hold", "wrap"})
          => /\ history' = Append(history, game)
             /\ undo(game', history') = Pair(game, history)
     /\ (game' # game /\ last'.op = "select") => history' = history]_vars

\* a powerup play was committed: the entry pushed is the state with the
\* powerup selected, the selection itself having pushed nothing
C3_Witness ==
  /\ last.op = "click" /\ Len(history) > 0
  /\ history[Len(history)].activePowerup # "none"

\* C4 as stated: once status is won or lost only a fresh Deal yields a
\* state whose status is playing.
C4_TerminalUnlessDeal ==
  [][(game.status # "playing" /\ game'.status = "playing")
       => last'.op \in {"deal", "replay"}]_vars

\* C4 amended: once status is won or lost, no operation other than a fresh
\* Deal or an Undo yields a state whose status is playing.
C4_TerminalUnlessDealOrUndo ==
  [][(game.status # "playing" /\ game'.status = "playing")
       => last'.op \in {"deal", "replay", "undo"}]_vars

\* an operation (a rule toggle) was accepted in a terminal state
C4_Witness == game.status \in {"won", "lost"} /\ last.op = "wrap"

\* C5: every rejected action leaves the GameState and the history stack
\* unchanged: a click on an empty, out-of-range or covered position; a plain
\* match with empty waste or a non-adjacent rank; Draw with empty stock; Hold
\* with empty waste; SelectPowerup with zero inventory; any Clear, Draw, Hold
\* or SelectPowerup in a won or lost state; ToggleWrap to the current value;
\* Undo with empty history.
C5_RejectedUnchanged ==
  LET same == Pair(game, history)
      terminal == game.status # "playing"
      badTarget(i) == i \notin SlotIds \/ ~Occupied(game, i) \/ Covered(game, i)
      badMatch(i) ==
        /\ i \in SlotIds
        /\ game.activePowerup = "none"
        /\ \/ Len(game.waste) = 0
           \/ ~RankAdjacent(game.tableau[i].card.rank, game.waste[Len(game.waste)].rank,
                            game.wrapEnabled)
  IN  /\ \A i \in ClickInputs :
           (terminal \/ badTarget(i) \/ badMatch(i))
             => handleCardClick(game, history, i) = same
      /\ (terminal \/ Len(game.stock) = 0) => drawFromStock(game, history) = same
      /\ (terminal \/ Len(game.waste) = 0) => useHold(game, history) = same
      /\ \A k \in Powerups :
           (terminal \/ game.powerups[k] = 0) => togglePowerup(game, history, k) = same
      /\ toggleWrap(game, history, game.wrapEnabled) = same
      /\ Len(history) = 0 => undo(game, history) = same

\* a playing state in which a covered card has a rank adjacent to the waste
\* top: a click on it is rejected for its position only
C5_Witness ==
  /\ steps >= 1
  /\ game.status = "playing" /\ game.activePowerup = "none" /\ Len(game.waste) > 0
  /\ \E i \in SlotIds :
       /\ Occupied(game, i) /\ Covered(game, i)
       /\ RankAdjacent(game.tableau[i].card.rank, game.waste[Len(game.waste)].rank,
                       game.wrapEnabled)

\* C6: after an accepted Clear, Draw or Hold that leaves cards in the
\* tableau, status is lost iff the stock is empty and (no position is
\* exposed, or no powerup is active or in the inventory and no exposed card
\* matches the waste top); otherwise it is playing.
C6_LossRule ==
  (last.op \in {"click", "draw", "hold"} /\ ~TableauEmpty(game)) =>
    LET noPowerup ==
          /\ game.activePowerup = "none"
          /\ game.powerups.wild + game.powerups.bomb + game.powerups.rainbow = 0
        loss ==
          /\ Len(game.stock) = 0
          /\ ExposedSet(game) = {} \/ (noPowerup /\ ~HasPlainMatch(game))
    IN  /\ game.status = "lost" <=> loss
        /\ ~loss => game.status = "playing"

\* a Hold has swapped the only matching card off the waste top: lost
C6_Witness == last.op = "hold" /\ game.status = "lost" /\ game.hold # NoCard

\* C7: a Clear that empties the tableau sets status won and bonusAwarded and
\* adds stock.length * 200 to the score once, on top of the clear's own
\* gain, also when the stock is empty; Clear, Draw, Hold and Evaluate on a
\* won state add nothing.
C7_WinBonus ==
  /\ \A i \in SlotIds : \A r \in {handleCardClick(game, history, i)} :
       (r.game # game /\ TableauEmpty(r.game)) =>
         /\ r.game.status = "won"
         /\ r.game.bonusAwarded
         /\ r.game.score =
              game.score
              + ClearGain(Cardinality({j \in SlotIds : Occupied(game, j)}), game.combo)
              + Len(game.stock) * 200
  /\ game.status = "won" =>
       /\ evaluateState(game) = game
       /\ drawFromStock(game, history) = Pair(game, history)
       /\ useHold(game, history) = Pair(game, history)
       /\ \A i \in SlotIds : handleCardClick(game, history, i) = Pair(game, history)

\* the last card was cleared with cards left in the stock
C7_Witness ==
  /\ last.op = "click" /\ game.status = "won" /\ game.bonusAwarded
  /\ Len(game.stock) > 0 /\ TableauEmpty(game)

\* all 28 positions occupied, hold empty, and the 52 cards each once in
\* tableau, stock and waste
Complete(g) ==
  /\ \A i \in SlotIds : Occupied(g, i)
  /\ Cardinality(SlotIds) = 28
  /\ g.hold = NoCard
  /\ Len(TableauCards(g) \o g.stock \o g.waste) = 52
  /\ {(TableauCards(g) \o g.stock \o g.waste)[k] : k \in 1..52} = FullDeck

\* the deal of every seed of Seeds is complete
DealsComplete == \A seed \in Seeds : Complete(Deal(seed))

\* C8: for every seed the dealt state has all 28 positions occupied, hold
\* empty, and tableau, stock and waste hold the 52 cards, each exactly once.
C8_DealComplete ==
  /\ DealsComplete
  /\ JustDealt => Complete(game)

\* Deal New Game was pressed with a seed typed in
C8_Witness == last.op = "deal" /\ Len(last.arg) > 0 /\ \A i \in SlotIds : Occupied(game, i)

\* C9 as stated: right after Deal the stock holds 24 cards, the waste 1.
C9_Stock24 ==
  /\ \A seed \in Seeds : Len(Deal(seed).stock) = 24 /\ Len(Deal(seed).waste) = 1
  /\ JustDealt => (Len(game.stock) = 24 /\ Len(game.waste) = 1)

\* C9 amended: right after Deal(seed), for every seed, the stock holds 23
\* cards and the waste holds exactly 1 card.
C9_Stock23 ==
  /\ \A seed \in Seeds : Len(Deal(seed).stock) = 23 /\ Len(Deal(seed).waste) = 1
  /\ JustDealt => (Len(game.stock) = 23 /\ Len(game.waste) = 1)

\* a fresh deal with its up-card on the waste
C9_Witness == last.op = "deal" /\ Len(game.waste) = 1 /\ Len(game.stock) = 23

\* C10: Deal returns combo 0, score 0, no powerups, no active powerup,
\* powerupCycle 0, wrapEnabled true, status playing, bonusAwarded false and
\* an empty hold, whatever the game before it was.
C10_DealResets ==
  /\ \A seed \in Seeds : FreshFields(Deal(seed))
  /\ [][last'.op \in {"deal", "replay"} /\ steps' # steps => FreshFields(game')]_vars

\* Replay Seed was pressed after at least one other operation
C10_Witness == last.op = "replay" /\ steps >= 2 /\ game.wrapEnabled

(***************************************************************************)
(* Vocabulary of the clear rules.                                          *)
(***************************************************************************)
\* the card identities at the 28 positions, the stock order and the waste
DealtCards(g) ==
  [tableau |-> [i \in SlotIds |-> g.tableau[i].card], stock |-> g.stock, waste |-> g.waste]

\* the positions that hold a card in `before` and none in `after`
Emptied(before, after) == {i \in SlotIds : Occupied(before, i) /\ ~Occupied(after, i)}

\* coverers and covered children of position i
NeighboursOf == [i \in SlotIds |-> Coverers(i) \cup {j \in SlotIds : i \in Coverers(j)}]

Neighbours(i) == NeighboursOf[i]

\* the positions the active mode of g clears for a click on position p
ClearSet(g, p) ==
  IF g.activePowerup = "bomb" THEN {p} \cup (Neighbours(p) \cap ExposedSet(g))
  ELSE IF g.activePowerup = "rainbow"
  THEN {q \in ExposedSet(g) : g.tableau[q].card.rank = g.tableau[p].card.rank}
  ELSE {p}

\* the multiplier, in halves, at each combo: 1.0, 1.5, 2.0, 2.5, 3.0
MultiplierHalves(c) ==
  IF c < 3 THEN 2 ELSE IF c < 6 THEN 3 ELSE IF c < 9 THEN 4 ELSE IF c < 12 THEN 5 ELSE 6

\* the multiples of 3 in (c, c + n]
Units(c, n) == ((c + n) \div 3) - (c \div 3)

\* how many of k units granted from rotation cursor `cycle` are of `kind`
GrantedOf(kind, cycle, k) ==
  Cardinality({j \in 1..k : << "wild", "bomb", "rainbow" >>[((cycle + j - 1) % 3) + 1] = kind})

\* the state before the last committed operation
Before == history[Len(history)]

\* the state the present game was dealt as: the bottom of the history
DealtAs == IF history = << >> THEN game ELSE history[1]

C12_ExposedExact ==
  \A q \in SlotIds \cup {-1} :
    \A g \in {IF q = -1 THEN game ELSE [game EXCEPT !.tableau[q].card = NoCard]} :
      \A ids \in {getExposedIds(g.tableau)} : \A open \in {ExposedSet(g)} :
        /\ {ids[k] : k \in 1..Len(ids)} = open
        /\ Len(ids) = Cardinality(open)
        /\ \A i \in SlotIds :
             /\ isExposed(g.tableau[i], g.tableau) <=> i \in open
             /\ ~Occupied(g, i) => ~isExposed(g.tableau[i], g.tableau)

\* play has uncovered a position below the top row while other cards are
\* still covered
C12_Witness ==
  /\ steps >= 1
  /\ \E i \in ExposedSet(game) : Coverers(i) # {}
  /\ \E j \in SlotIds : Occupied(game, j) /\ Covered(game, j)

\* isAdjacentRank on every pair of ranks under both wrap settings
AdjacencyTable ==
  \A a \in 1..MaxRank : \A b \in 1..MaxRank : \A wrap \in BOOLEAN :
    /\ isAdjacentRank(a, b, wrap) <=>
         (a - b = 1 \/ b - a = 1 \/ (wrap /\ {a, b} = {1, 13}))
    /\ isAdjacentRank(a, b, wrap) <=> isAdjacentRank(b, a, wrap)
    /\ ~isAdjacentRank(a, a, wrap)

\* C13: for all ranks a, b in 1..13 and both wrap settings,
\* isAdjacentRank(a, b, wrap) is true iff |a - b| = 1 or wrap is enabled and
\* {a, b} = {1, 13}; it is symmetric and never true for equal ranks.
C13_AdjacentRank ==
  /\ AdjacencyTable
  /\ \A i \in SlotIds :
       (Occupied(game, i) /\ Len(game.waste) > 0) =>
         \A a \in {game.tableau[i].card.rank} : \A b \in {Top(game.waste).rank} :
           isAdjacentRank(a, b, game.wrapEnabled) <=>
             (a - b = 1 \/ b - a = 1 \/ (game.wrapEnabled /\ {a, b} = {1, 13}))

\* a King was matched on an Ace, or an Ace on a King, with wrap enabled
C13_Witness ==
  /\ last.op = "click" /\ Len(history) > 0
  /\ Before.activePowerup = "none" /\ Before.wrapEnabled
  /\ {Top(Before.waste).rank, Top(game.waste).rank} = {1, 13}

\* C14: with no active powerup in a playing state a click on position p is
\* accepted iff p is occupied and exposed, the waste is non-empty and p's
\* rank is adjacent to the waste-top rank under the current wrapEnabled; an
\* accepted plain match clears exactly {p} and adds exactly 1 to combo.
C14_PlainMatch ==
  (game.status = "playing" /\ game.activePowerup = "none") =>
    \A p \in ClickInputs : \A r \in {handleCardClick(game, history, p)} :
      LET accepted == r # Pair(game, history)
          legal ==
            /\ p \in SlotIds
            /\ Occupied(game, p) /\ ~Covered(game, p)
            /\ Len(game.waste) > 0
            /\ RankAdjacent(game.tableau[p].card.rank, game.waste[Len(game.waste)].rank,
                            game.wrapEnabled)
      IN  /\ accepted <=> legal
          /\ accepted => /\ Emptied(game, r.game) = {p}
                         /\ r.game.combo = game.combo + 1

\* a plain match has been played
C14_Witness ==
  /\ last.op = "click" /\ Len(history) > 0
  /\ Before.activePowerup = "none"
  /\ game.combo = Before.combo + 1
  /\ Emptied(Before, game) = {last.arg}

\* C15: with wild active in a playing state a click on any occupied exposed
\* position is accepted whatever its rank and the waste, clears exactly
\* that position and consumes one wild: the wild count afterwards is the
\* count before minus 1 plus the wild units granted by that clear.
C15_WildClear ==
  (game.status = "playing" /\ game.activePowerup = "wild") =>
    \A p \in ExposedSet(game) : \A r \in {handleCardClick(game, history, p)} :
      /\ r # Pair(game, history)
      /\ Emptied(game, r.game) = {p}
      /\ r.game.combo = game.combo + 1
      /\ r.game.powerups.wild =
           game.powerups.wild - 1
           + GrantedOf("wild", game.powerupCycle, Units(game.combo, 1))

\* a wild was played on a card whose rank is not adjacent to the waste top
C15_Witness ==
  /\ last.op = "click" /\ Len(history) > 0
  /\ Before.activePowerup = "wild"
  /\ ~RankAdjacent(Top(game.waste).rank, Top(Before.waste).rank, TRUE)
  /\ game.powerups.wild = Before.powerups.wild - 1

\* C16: with bomb active in a playing state a click on an occupied exposed
\* position p clears exactly p and the neighbours of p that are exposed
\* before the play, each once, adds the size of that set to combo and
\* consumes one bomb.
C16_BombClear ==
  (game.status = "playing" /\ game.activePowerup = "bomb") =>
    \A p \in ExposedSet(game) : \A r \in {handleCardClick(game, history, p)} :
      \A set \in {{p} \cup (Neighbours(p) \cap ExposedSet(game))} :
        /\ r # Pair(game, history)
        /\ Emptied(game, r.game) = set
        /\ r.game.combo = game.combo + Cardinality(set)
        /\ r.game.powerups.bomb =
             game.powerups.bomb - 1
             + GrantedOf("bomb", game.powerupCycle, Units(game.combo, Cardinality(set)))

\* a bomb was played on a card that still covers cards
C16_Witness ==
  /\ last.op = "click" /\ Len(history) > 0
  /\ Before.activePowerup = "bomb"
  /\ \E q \in Neighbours(last.arg) : Occupied(game, q)
  /\ game.powerups.bomb = Before.powerups.bomb - 1

\* C17: with rainbow active in a playing state a click on an occupied
\* exposed position p clears exactly the positions exposed before the play
\* whose card has the rank of p's card, p among them, and consumes one
\* rainbow.
C17_RainbowClear ==
  (game.status = "playing" /\ game.activePowerup = "rainbow") =>
    \A p \in ExposedSet(game) : \A r \in {handleCardClick(game, history, p)} :
      \A set \in {{q \in ExposedSet(game) :
                     game.tableau[q].card.rank = game.tableau[p].card.rank}} :
        /\ r # Pair(game, history)
        /\ p \in set
        /\ Emptied(game, r.game) = set
        /\ r.game.powerups.rainbow =
             game.powerups.rainbow - 1
             + GrantedOf("rainbow", game.powerupCycle, Units(game.combo, Cardinality(set)))

\* a rainbow has cleared two positions at once
C17_Witness ==
  /\ last.op = "click" /\ Len(history) > 0
  /\ Before.activePowerup = "rainbow"
  /\ Cardinality(Emptied(Before, game)) >= 2

\* C18: every accepted Clear empties exactly the positions of its clear set
\* and changes no other position, pushes the clicked card and no other onto
\* the top of the waste, leaves stock, hold, wrapEnabled and the id, row and
\* column of every position unchanged and sets activePowerup to none.
C18_ClearFrame ==
  game.status = "playing" =>
    \A p \in ExposedSet(game) : \A r \in {handleCardClick(game, history, p)} :
      r # Pair(game, history) =>
        \A set \in {ClearSet(game, p)} :
          /\ \A j \in set : Occupied(game, j)
          /\ \A j \in SlotIds :
               r.game.tableau[j] =
                 IF j \in set THEN [game.tableau[j] EXCEPT !.card = NoCard]
                 ELSE game.tableau[j]
          /\ r.game.waste = Append(game.waste, game.tableau[p].card)
          /\ r.game.stock = game.stock
          /\ r.game.hold = game.hold
          /\ r.game.wrapEnabled = game.wrapEnabled
          /\ r.game.activePowerup = "none"

\* a powerup clear of several positions has put one card on the waste and
\* has left no powerup active
C18_Witness ==
  /\ last.op = "click" /\ Len(history) > 0
  /\ Before.activePowerup # "none" /\ game.activePowerup = "none"
  /\ Cardinality(Emptied(Before, game)) >= 2
  /\ game.waste = Append(Before.waste, Before.tableau[last.arg].card)

\* the largest combo and the largest clear the scoring rules are tabulated for
MaxCombo == 16

MaxCleared == 6

\* the rotation cursors the grant rule is tabulated for
MaxCycle == 5

\* the multiplier and the rounded gain for every combo c and clear size n
GainTable ==
  /\ \A c \in 0..(MaxCombo + MaxCleared) : getComboMultiplierHalves(c) = MultiplierHalves(c)
  /\ \A c \in 0..MaxCombo : \A n \in 1..MaxCleared :
       \A h \in {n * BASE_POINTS * getComboMultiplierHalves(c + n)} :
         /\ h % 2 = 0
         /\ RoundHalves(h) = n * 50 * MultiplierHalves(c + n)

\* C19: an accepted Clear of n positions from combo c that does not win the
\* game adds exactly n * 100 * m to the score, m being the multiplier of the
\* combo c + n after the clear: 1.0, 1.5, 2.0, 2.5, 3.0 from combos 0, 3, 6,
\* 9, 12 on and 3.0 for every combo >= 12; the gain is an integer, so the
\* rounding never changes it.
C19_ScoreGain ==
  /\ GainTable
  /\ game.status = "playing" =>
       \A p \in ExposedSet(game) : \A r \in {handleCardClick(game, history, p)} :
         (r # Pair(game, history) /\ r.game.status # "won") =>
           \A n \in {Cardinality(ClearSet(game, p))} :
             /\ r.game.combo = game.combo + n
             /\ 2 * (r.game.score - game.score)
                  = n * 100 * MultiplierHalves(game.combo + n)

\* a clear has taken the combo over a step of the multiplier
C19_Witness ==
  /\ last.op = "click" /\ Len(history) > 0 /\ game.status = "playing"
  /\ MultiplierHalves(game.combo) > MultiplierHalves(Before.combo)
  /\ game.score > Before.score

\* the units granted for every combo c, clear size n and rotation cursor
GrantTable ==
  LET none == [wild |-> 0, bomb |-> 0, rainbow |-> 0]
  IN  /\ \A c \in 0..MaxCombo : \A n \in 0..MaxCleared : \A cycle \in 0..MaxCycle :
           \A g \in {grantPowerups(c, c + n, none, cycle)} :
             /\ g.nextCycle = cycle + Units(c, n)
             /\ \A kind \in Powerups : g.inventory[kind] = GrantedOf(kind, cycle, Units(c, n))
             /\ Units(c, n) = Cardinality({m \in (c + 1)..(c + n) : m % 3 = 0})
      /\ grantPowerups(0, 3, none, 0) = [inventory |-> [none EXCEPT !.wild = 1], nextCycle |-> 1]
      /\ grantPowerups(0, 6, none, 0) =
           [inventory |-> [none EXCEPT !.wild = 1, !.bomb = 1], nextCycle |-> 2]

\* C20: a Clear that moves combo from c to c + n grants exactly
\* floor((c+n)/3) - floor(c/3) units, one per multiple of 3 in (c, c + n];
\* the j-th unit is of kind [wild, bomb, rainbow][(powerupCycle + j - 1) mod 3]
\* and powerupCycle grows by the number of units; Draw and Hold reset combo
\* and leave the rotation cursor alone.
C20_Grants ==
  /\ GrantTable
  /\ game.status = "playing" =>
       /\ \A p \in ExposedSet(game) : \A r \in {handleCardClick(game, history, p)} :
            r # Pair(game, history) =>
              \A k \in {Units(game.combo, Cardinality(ClearSet(game, p)))} :
                /\ r.game.powerupCycle = game.powerupCycle + k
                /\ \A kind \in Powerups :
                     r.game.powerups[kind] =
                       game.powerups[kind]
                       - (IF game.activePowerup = kind THEN 1 ELSE 0)
                       + GrantedOf(kind, game.powerupCycle, k)
       /\ \A r \in {drawFromStock(game, history), useHold(game, history)} :
            r # Pair(game, history) =>
              /\ r.game.combo = 0
              /\ r.game.powerupCycle = game.powerupCycle
              /\ r.game.powerups = game.powerups

\* a clear has been granted one unit, of the kind the rotation cursor was at
C20_Witness ==
  /\ last.op = "click" /\ Len(history) > 0
  /\ game.powerupCycle = Before.powerupCycle + 1
  /\ \E kind \in Powerups :
       /\ POWERUP_ORDER[(Before.powerupCycle % 3) + 1] = kind
       /\ game.powerups[kind] = Before.powerups[kind] + 1

(***************************************************************************)
(* Draw, Hold, the rule toggle, the powerup selection and the history.     *)
(***************************************************************************)
\* C21: an accepted Draw (status playing, stock non-empty) moves exactly the
\* top (last) stock card onto the top of the waste, sets combo to 0 and
\* activePowerup to none and leaves score, the powerup counts, powerupCycle,
\* tableau, hold, wrapEnabled and bonusAwarded unchanged.
C21_DrawFrame ==
  \A r \in {drawFromStock(game, history)} :
    /\ r # Pair(game, history) <=> (game.status = "playing" /\ Len(game.stock) > 0)
    /\ r # Pair(game, history) =>
         /\ r.game.stock = SubSeq(game.stock, 1, Len(game.stock) - 1)
         /\ r.game.waste = Append(game.waste, game.stock[Len(game.stock)])
         /\ r.game.combo = 0
         /\ r.game.activePowerup = "none"
         /\ r.game.score = game.score
         /\ r.game.powerups = game.powerups
         /\ r.game.powerupCycle = game.powerupCycle
         /\ r.game.tableau = game.tableau
         /\ r.game.hold = game.hold
         /\ r.game.wrapEnabled = game.wrapEnabled
         /\ r.game.bonusAwarded = game.bonusAwarded

\* a Draw has ended a combo and has put away the powerup that was selected
C21_Witness ==
  /\ last.op = "draw" /\ Len(history) > 0
  /\ Before.combo > 0 /\ Before.activePowerup # "none"
  /\ game.combo = 0 /\ game.activePowerup = "none"
  /\ Len(game.stock) = Len(Before.stock) - 1

\* C22: an accepted Hold (status playing, waste non-empty) removes the waste
\* top w; if the hold slot held a card h, h becomes the new waste top and the
\* waste keeps its length, otherwise the waste shrinks by one; w becomes the
\* hold card; combo becomes 0 and activePowerup none; tableau, stock, score
\* and the powerup counts are unchanged.
C22_HoldFrame ==
  \A r \in {useHold(game, history)} :
    /\ r # Pair(game, history) <=> (game.status = "playing" /\ Len(game.waste) > 0)
    /\ r # Pair(game, history) =>
         \A rest \in {SubSeq(game.waste, 1, Len(game.waste) - 1)} :
           /\ r.game.hold = game.waste[Len(game.waste)]
           /\ game.hold # NoCard =>
                /\ r.game.waste = Append(rest, game.hold)
                /\ Len(r.game.waste) = Len(game.waste)
           /\ game.hold = NoCard => r.game.waste = rest
           /\ r.game.combo = 0
           /\ r.game.activePowerup = "none"
           /\ r.game.tableau = game.tableau
           /\ r.game.stock = game.stock
           /\ r.game.score = game.score
           /\ r.game.powerups = game.powerups

\* a Hold has swapped the waste top with the card held before
C22_Witness ==
  /\ last.op = "hold" /\ Len(history) > 0
  /\ Before.hold # NoCard
  /\ game.hold = Top(Before.waste)
  /\ Top(game.waste) = Before.hold

\* C23: ToggleWrap(b) is accepted in every status; it changes only
\* wrapEnabled, leaving combo, score, the powerup counts, activePowerup,
\* powerupCycle, status, tableau, stock, waste and hold unchanged, and it
\* pushes one history entry iff b differs from the current wrapEnabled.
C23_WrapFrame ==
  \A b \in BOOLEAN : \A r \in {toggleWrap(game, history, b)} :
    /\ r.game = [game EXCEPT !.wrapEnabled = b]
    /\ r.game.status = game.status
    /\ r.history = IF b # game.wrapEnabled THEN Append(history, game) ELSE history

\* the wrap rule was switched off in a game already won or lost
C23_Witness ==
  /\ last.op = "wrap" /\ Len(history) > 0
  /\ game.status # "playing" /\ Before.status = game.status
  /\ Before.wrapEnabled /\ ~game.wrapEnabled

\* C24: in a playing state with powerups[k] >= 1, SelectPowerup(k) sets
\* activePowerup to k when it was not k, also when another kind was active,
\* and to none when it was k, changing no other field; with powerups[k] = 0
\* or status other than playing it returns the state unchanged.
C24_SelectFrame ==
  \A k \in Powerups : \A r \in {togglePowerup(game, history, k)} :
    /\ (game.status = "playing" /\ game.powerups[k] >= 1) =>
         r.game = [game EXCEPT !.activePowerup = IF game.activePowerup = k THEN "none" ELSE k]
    /\ (game.status # "playing" \/ game.powerups[k] = 0) => r.game = game

\* a kind is selected while another kind is in the inventory: selecting
\* that one switches, selecting the active one deselects
C24_Witness ==
  /\ last.op = "select" /\ game.status = "playing"
  /\ game.activePowerup # "none"
  /\ \E k \in Powerups : k # game.activePowerup /\ game.powerups[k] >= 1

RECURSIVE UndoAll(_)
\* Undo repeated until it is a no-op
UndoAll(p) ==
  IF undo(p.game, p.history) = p THEN p
  ELSE UndoAll(undo(p.game, p.history))

\* C25: a new deal (Deal New Game or Replay Seed) empties the history stack
\* whatever it contained; in every reachable state whose history is empty
\* the GameState is Deal(seed) of its own seed; Undo repeated until it is a
\* no-op ends in the freshly dealt state.
C25_HistoryBottom ==
  /\ JustDealt => history = << >>
  /\ history = << >> => game = Deal(game.seed)
  /\ \A e \in {UndoAll(Pair(game, history))} :
       /\ e.history = << >>
       /\ e.game = Deal(game.seed)

\* every operation of the run has been undone
C25_Witness == last.op = "undo" /\ history = << >> /\ steps >= 2

\* the states the committed operations went through, the present one last
Trail == Append(history, game)

\* the step from a to b is an accepted plain match: no powerup was active,
\* one card left the tableau and went onto the waste
PlainMatchStep(a, b) ==
  /\ a.activePowerup = "none"
  /\ Cardinality(Emptied(a, b)) = 1
  /\ Len(b.waste) = Len(a.waste) + 1
  /\ b.stock = a.stock /\ b.hold = a.hold

RECURSIVE PlainRunCounts(_, _, _)
\* going back from entry k of the trail tr over n plain matches in a row:
\* every entry of that run with combo 0 is n matches before a combo of n
PlainRunCounts(tr, k, n) ==
  /\ tr[k].combo = 0 => tr[Len(tr)].combo = n
  /\ (k > 1 /\ PlainMatchStep(tr[k - 1], tr[k])) => PlainRunCounts(tr, k - 1, n + 1)

RECURSIVE PlainRunLength(_, _)
\* the number of plain matches in a row that end at entry k of the trail tr
PlainRunLength(tr, k) ==
  IF k > 1 /\ PlainMatchStep(tr[k - 1], tr[k]) THEN 1 + PlainRunLength(tr, k - 1) ELSE 0

\* C26: starting from a state with combo 0, after N consecutive accepted
\* plain matches with no Draw, Hold or Undo in between combo equals N; a
\* Draw issued afterwards leaves combo equal to 0.
C26_ComboCounts ==
  /\ \A tr \in {Trail} : PlainRunCounts(tr, Len(tr), 0)
  /\ \A r \in {drawFromStock(game, history)} :
       r # Pair(game, history) => r.game.combo = 0

\* a plain match has extended a run of at least three that began at combo 0
C26_Witness ==
  /\ last.op = "click"
  /\ \A tr \in {Trail} : \A n \in {PlainRunLength(tr, Len(tr))} :
       /\ n >= 3
       /\ tr[Len(tr) - n].combo = 0
       /\ game.combo = n

\* C27: in every reachable state each of the three powerup counts is >= 0
\* and their sum does not exceed powerupCycle, the number of units granted
\* so far; powerupCycle never decreases across Clear, Draw, Hold, ToggleWrap
\* or SelectPowerup.
C27_PowerupCounts ==
  /\ \A k \in Powerups : game.powerups[k] >= 0
  /\ game.powerups.wild + game.powerups.bomb + game.powerups.rainbow <= game.powerupCycle
  /\ \A o \in CommittedOps \cup {Sel(k) : k \in Powerups} :
       \A r \in {Apply(Pair(game, history), o)} :
         r.game.powerupCycle >= game.powerupCycle

\* a powerup has been spent: fewer units are held than were granted
C27_Witness ==
  /\ last.op = "click" /\ Len(history) > 0
  /\ Before.activePowerup # "none"
  /\ game.powerups.wild + game.powerups.bomb + game.powerups.rainbow < game.powerupCycle

\* elements of a sequence as a set
Range(seq) == {seq[k] : k \in 1..Len(seq)}

\* the static layout: ids, rows, coverers and neighbours
LayoutTable ==
  /\ Len(LAYOUT) = 28
  /\ \A k \in 1..Len(LAYOUT) : LAYOUT[k].id = k - 1 /\ LAYOUT[k].card = NoCard
  /\ \A k \in 1..(Len(LAYOUT) - 1) : LAYOUT[k].row <= LAYOUT[k + 1].row
  /\ \A row \in 0..3 :
       Cardinality({k \in 1..Len(LAYOUT) : LAYOUT[k].row = row}) = << 3, 6, 9, 10 >>[row + 1]
  /\ DOMAIN PARENTS = 0..27 /\ DOMAIN ADJACENCY = 0..27
  /\ \A i \in 0..27 :
       /\ Len(PARENTS[i]) <= 2
       /\ Cardinality(Range(PARENTS[i])) = Len(PARENTS[i])
       /\ \A j \in Range(PARENTS[i]) :
            /\ LAYOUT[j + 1].row = LAYOUT[i + 1].row - 1
            /\ LAYOUT[j + 1].x - LAYOUT[i + 1].x \in {-1, 1}
       /\ LAYOUT[i + 1].row = 0 => Len(PARENTS[i]) = 0
       /\ LAYOUT[i + 1].row > 0 => Len(PARENTS[i]) >= 1
       /\ Range(ADJACENCY[i]) =
            Range(PARENTS[i]) \cup {j \in 0..27 : i \in Range(PARENTS[j])}
       /\ Cardinality(Range(ADJACENCY[i])) = Len(ADJACENCY[i])
       /\ \A j \in Range(ADJACENCY[i]) : i \in Range(ADJACENCY[j])

\* C28: the static layout has exactly 28 positions with ids 0..27 in row
\* order, 3, 6, 9 and 10 of them in rows 0..3; every position has at most 2
\* coverers, each in the row directly above with the column differing by 1;
\* the row-0 positions have no coverer, every other position at least one;
\* the neighbour relation is coverers and covered children and is symmetric.
\* Every state keeps that layout: position i of the tableau has the id, the
\* row and the column of LAYOUT.
C28_Layout ==
  /\ LayoutTable
  /\ DOMAIN game.tableau = 0..27
  /\ \A i \in 0..27 : [game.tableau[i] EXCEPT !.card = NoCard] = LAYOUT[i + 1]

\* play has emptied a position of the last row
C28_Witness ==
  /\ last.op = "click"
  /\ \E i \in SlotIds : LAYOUT[i + 1].row = 3 /\ ~Occupied(game, i)

\* C29: in every reachable state no card identity occurs more than once
\* across the tableau positions, the stock, the waste and the hold slot, and
\* they hold no more than 52 cards together.
C29_NoDuplicate ==
  \A cards \in {AllCards(game)} :
    /\ Len(cards) <= 52
    /\ Cardinality({cards[k].id : k \in 1..Len(cards)}) = Len(cards)
    /\ Range(cards) \subseteq FullDeck

\* a Hold has swapped two cards in a game that holds fewer than 52 cards
C29_Witness ==
  /\ last.op = "hold" /\ game.hold # NoCard
  /\ Len(AllCards(game)) < 52

\* of any two neighbours one covers the other
NeighboursCover ==
  \A i \in SlotIds : \A j \in Range(ADJACENCY[i]) :
    j \in Range(PARENTS[i]) \/ i \in Range(PARENTS[j])

\* C30: for every tableau content no neighbour of an exposed position is
\* itself exposed; so every accepted bomb play clears exactly the target
\* and adds exactly 1 to combo: its effect is that of a wild play on the
\* same position, the inventory count that is decremented apart.  The
\* contents checked are the tableau of the state and the same with the card
\* of any one position taken away, covered or not; for the other contents
\* the same follows from an exposed position having no card on a coverer
\* and one of two neighbours always covering the other.
C30_BombIsSingle ==
  /\ NeighboursCover
  /\ \A q \in SlotIds \cup {-1} :
       \A t \in {IF q = -1 THEN game.tableau
                 ELSE [game.tableau EXCEPT ![q].card = NoCard]} :
         \A ids \in {getExposedIds(t)} :
           \A k \in 1..Len(ids) : \A j \in Range(ADJACENCY[ids[k]]) : ~Has(ids, j)
  /\ (game.status = "playing" /\ game.activePowerup = "bomb") =>
       \A p \in ExposedSet(game) : \A r \in {handleCardClick(game, history, p)} :
         /\ r # Pair(game, history)
         /\ Emptied(game, r.game) = {p}
         /\ r.game.combo = game.combo + 1
         /\ game.powerups.wild >= 1 =>
              \A w \in {handleCardClick([game EXCEPT !.activePowerup = "wild"], history, p)} :
                /\ [r.game EXCEPT !.powerups = game.powerups]
                     = [w.game EXCEPT !.powerups = game.powerups]
                /\ r.game.powerups.bomb + 1 = w.game.powerups.bomb
                /\ r.game.powerups.wild = w.game.powerups.wild + 1
                /\ r.game.powerups.rainbow = w.game.powerups.rainbow

\* a bomb was played while a wild was in the inventory and cleared one card
C30_Witness ==
  /\ last.op = "click" /\ Len(history) > 0
  /\ Before.activePowerup = "bomb" /\ Before.powerups.wild >= 1
  /\ Emptied(Before, game) = {last.arg}
  /\ game.combo = Before.combo + 1

(***************************************************************************)
(* Invariants of the reachable states: exposure, the active powerup, the   *)
(* terminal statuses.                                                      *)
(***************************************************************************)
\* C31: in every reachable state every empty tableau position has only empty
\* coverers, and whenever the tableau holds a card at least one position is
\* exposed; so the branch of evaluateState that declares the loss for an
\* empty stock and an empty list of exposed ids is never the one taken.
C31_ExposedExists ==
  /\ \A i \in SlotIds : ~Occupied(game, i) => \A j \in Coverers(i) : ~Occupied(game, j)
  /\ ~TableauEmpty(game) => ExposedSet(game) # {}
  /\ ~TableauEmpty(game) => Len(getExposedIds(game.tableau)) > 0
  /\ \A o \in {Ck(i) : i \in SlotIds} \cup {Dr, Hd} :
       \A r \in {Apply(Pair(game, history), o)} :
         (r.game.status = "lost" /\ game.status = "playing") =>
           Len(getExposedIds(r.game.tableau)) > 0

\* a click has emptied a position that has coverers and cards remain
C31_Witness ==
  /\ last.op = "click"
  /\ Coverers(last.arg) # {} /\ ~Occupied(game, last.arg)
  /\ ~TableauEmpty(game)

\* C32: in every reachable state an active powerup of kind k means that the
\* status is playing and powerups[k] >= 1; so a click on an exposed card
\* with a powerup active is never rejected for an empty inventory, and the
\* count spent was at least 1 before the decrement.
C32_ActiveIsHeld ==
  /\ game.activePowerup # "none" =>
       /\ game.activePowerup \in Powerups
       /\ game.status = "playing"
       /\ game.powerups[game.activePowerup] >= 1
  /\ game.activePowerup # "none" =>
       \A p \in ExposedSet(game) : \A r \in {handleCardClick(game, history, p)} :
         /\ r # Pair(game, history)
         /\ r.game.powerups[game.activePowerup] >= game.powerups[game.activePowerup] - 1
         /\ r.game.powerups[game.activePowerup] >= 0

\* the rule toggle was used while a powerup was active
C32_Witness ==
  /\ last.op = "wrap"
  /\ game.activePowerup # "none"
  /\ game.powerups[game.activePowerup] >= 1

\* C33: in every reachable state status is won iff all 28 tableau positions
\* are empty iff bonusAwarded is true.
C33_WonIffEmpty ==
  /\ game.status = "won" <=> TableauEmpty(game)
  /\ TableauEmpty(game) <=> game.bonusAwarded

\* the game is won and the rule toggle was used in the won state
C33_Witness ==
  /\ last.op = "wrap" /\ Len(history) > 0 /\ Before.status = "won"
  /\ game.status = "won" /\ TableauEmpty(game) /\ game.bonusAwarded

\* C34: in every reachable state with status lost the stock is empty, the
\* tableau is not empty, the three powerup counts are 0 and no powerup is
\* active.
C34_LostFields ==
  game.status = "lost" =>
    /\ Len(game.stock) = 0
    /\ ~TableauEmpty(game)
    /\ \A k \in Powerups : game.powerups[k] = 0
    /\ game.activePowerup = "none"

\* the game is lost and the rule toggle was used in the lost state
C34_Witness ==
  /\ game.status = "lost" /\ last.op = "wrap"
  /\ Len(history) > 0 /\ Before.status = "lost"

\* the loss rule of evaluateState on the fields of g: nothing in the
\* inventory and no exposed card next in rank to the waste top
NoMoveLeft(g) ==
  /\ \A k \in Powerups : g.powerups[k] = 0
  /\ ~HasPlainMatch(g)

\* stock empty and cards in the tableau: the states the loss rule is about
StockOut(g) == Len(g.stock) = 0 /\ ~TableauEmpty(g)

\* C35 as stated: in every reachable state with empty stock and non-empty
\* tableau, status is lost iff all powerup counts are 0 and no exposed card
\* is rank-adjacent to the waste top under the current wrapEnabled, also
\* after ToggleWrap and Undo.
C35_StatusIsRule ==
  StockOut(game) => (game.status = "lost" <=> NoMoveLeft(game))

\* C35, amended: the stored status is what the loss rule gave when a Clear,
\* Draw or Hold last evaluated it.  Right after one of these it agrees with
\* the rule on the current fields; ToggleWrap changes wrapEnabled and keeps
\* the status, so at any time a lost state has no powerup and no match with
\* wrap disabled, and a state with no powerup and no match even with wrap
\* enabled is lost.
C35_StatusIsRuleWhenEvaluated ==
  StockOut(game) =>
    /\ last.op \in {"click", "draw", "hold"} =>
         (game.status = "lost" <=> NoMoveLeft(game))
    /\ game.status = "lost" => NoMoveLeft([game EXCEPT !.wrapEnabled = FALSE])
    /\ NoMoveLeft([game EXCEPT !.wrapEnabled = TRUE]) => game.status = "lost"
    /\ \A b \in BOOLEAN : toggleWrap(game, history, b).game.status = game.status

\* the rule toggle has left a status that the loss rule would not give
C35_Witness ==
  /\ last.op = "wrap" /\ StockOut(game)
  /\ ~(game.status = "lost" <=> NoMoveLeft(game))

\* the card a Hold would bring to the top of the waste of g: the hold card
\* when the slot is occupied, else the card under the waste top
HoldBrings(g) ==
  IF g.hold # NoCard THEN g.hold
  ELSE IF Len(g.waste) >= 2 THEN g.waste[Len(g.waste) - 1]
  ELSE NoCard

\* the card c is next in rank to an exposed card of g
MatchesExposed(g, c) ==
  /\ c # NoCard
  /\ \E i \in ExposedSet(g) : RankAdjacent(g.tableau[i].card.rank, c.rank, g.wrapEnabled)

\* a Clear, Draw or Hold has just set the status to lost
JustLost ==
  /\ last.op \in {"click", "draw", "hold"}
  /\ game.status = "lost"
  /\ Len(history) > 0 /\ Before.status = "playing"

\* C36 as stated: whenever a Clear, Draw or Hold sets status to lost, the
\* card a Hold would bring to the top of the waste is not rank-adjacent,
\* under wrapEnabled, to any exposed card.
C36_NoHoldRescue ==
  JustLost => ~MatchesExposed(game, HoldBrings(game))

\* C36, amended: the loss rule reads the waste top only.  Whenever a Clear,
\* Draw or Hold sets status to lost, the waste top matches no exposed card
\* and the inventory is empty, and the verdict is the same for any card in
\* the hold slot and any card under the waste top, matching or not; the
\* Hold that would bring such a card up is rejected in the lost state.
C36_LossReadsWasteTop ==
  JustLost =>
    /\ ~MatchesExposed(game, Top(game.waste))
    /\ \A k \in Powerups : game.powerups[k] = 0
    /\ useHold(game, history) = Pair(game, history)
    /\ \A c \in FullDeck \cup {NoCard} :
         /\ evaluateState([game EXCEPT !.status = "playing", !.hold = c]).status = "lost"
         /\ Len(game.waste) >= 2 =>
              evaluateState([game EXCEPT !.status = "playing",
                                         !.waste[Len(game.waste) - 1] = c]).status = "lost"

\* the game was declared lost while the card a Hold would bring up matches
\* an exposed card
C36_Witness == JustLost /\ MatchesExposed(game, HoldBrings(game))

(***************************************************************************)
(* Termination of play.                                                    *)
(***************************************************************************)
\* the number of occupied tableau positions of g
OccupiedCount(g) == Cardinality({i \in SlotIds : Occupied(g, i)})

\* the steps of the trail tr that took cards off the tableau
ClearsOn(tr) == {k \in 2..Len(tr) : OccupiedCount(tr[k]) < OccupiedCount(tr[k - 1])}

\* the steps of the trail tr that took a card off the stock
DrawsOn(tr) == {k \in 2..Len(tr) : Len(tr[k].stock) < Len(tr[k - 1].stock)}

\* neither a click nor a Draw is accepted
PlayOver ==
  /\ \A i \in SlotIds : handleCardClick(game, history, i) = Pair(game, history)
  /\ drawFromStock(game, history) = Pair(game, history)

\* the two measures of a state and the operations on it
PlayMeasures ==
  \A occupied \in {OccupiedCount(game)} :
    /\ occupied \in 0..28 /\ Len(game.stock) \in 0..23
    /\ \A i \in SlotIds : \A r \in {handleCardClick(game, history, i)} :
         r # Pair(game, history) =>
           /\ OccupiedCount(r.game) < occupied
           /\ Len(r.game.stock) = Len(game.stock)
    /\ \A r \in {drawFromStock(game, history)} :
         r # Pair(game, history) =>
           /\ Len(r.game.stock) = Len(game.stock) - 1
           /\ OccupiedCount(r.game) = occupied
    /\ \A o \in {Hd} \cup {Wr(b) : b \in BOOLEAN} \cup {Sel(k) : k \in Powerups} :
         \A r \in {Apply(Pair(game, history), o)} :
           /\ OccupiedCount(r.game) <= occupied
           /\ Len(r.game.stock) <= Len(game.stock)
    /\ \A tr \in {Trail} :
         /\ Cardinality(ClearsOn(tr)) + occupied <= 28
         /\ Cardinality(DrawsOn(tr)) + Len(game.stock) = 23

\* C37: every accepted Clear strictly decreases the number of occupied
\* tableau positions, every accepted Draw decreases the stock size by
\* exactly 1, and Hold, ToggleWrap and SelectPowerup increase neither; the
\* run from the deal to any state, Undo left out, holds at most 28 accepted
\* Clears and 23 accepted Draws; and a player who only clicks and draws, as
\* long as one of the two is accepted, reaches a state in which neither is.
C37_PlayEnds == []PlayMeasures /\ <>PlayOver

\* play has come to its end by a click, 28 accepted Clears after the deal
C37_Witness ==
  /\ PlayOver /\ last.op = "click"
  /\ Cardinality(ClearsOn(Trail)) = 28
  /\ Cardinality(DrawsOn(Trail)) >= 1

(***************************************************************************)
(* The board's test of a card against the handler's.                       *)
(***************************************************************************)
\* C38: in every reachable state with status playing, isCardPlayable, as
\* the board calls it to enable a card, is true for an occupied position
\* exactly when handleCardClick on that position returns a changed state.
C38_PlayableIsAccepted ==
  game.status = "playing" =>
    \A i \in SlotIds :
      Occupied(game, i) =>
        (playable(game, i) <=> handleCardClick(game, history, i) # Pair(game, history))

\* a powerup is active: an exposed card that is no match is playable, and a
\* covered card is not
C38_Witness ==
  /\ game.status = "playing" /\ game.activePowerup # "none"
  /\ \E i \in ExposedSet(game) :
       /\ ~MatchesExposed(game, Top(game.waste)) \/
            ~RankAdjacent(game.tableau[i].card.rank, Top(game.waste).rank, game.wrapEnabled)
       /\ playable(game, i)
  /\ \E i \in SlotIds : Occupied(game, i) /\ Covered(game, i) /\ ~playable(game, i)
====
